---- MODULE Spec2Model ----
(***************************************************************************)
(* Lockout controller and submission guard of the authentication pages     *)
(* (login / register / generate_token).  Time is Date.now() in             *)
(* milliseconds; localStorage holds decimal strings; the countdown of      *)
(* disableForm is a setInterval timer firing every 1000 ms.                *)
(*                                                                         *)
(* Enforcement engine of the ComfyUI front-end extension                   *)
(* (web/usgromana_settings.js): the cached user and policy map, the        *)
(* injected style element, the sidebar and menu scanners, the confirm      *)
(* dialog patch, the keyboard guard and the fetch wrapper.                 *)
(*                                                                         *)
(* Floating button and radial menu (web/floating_button.js): the button    *)
(* registry window.UsgromanaRadialMenu, the menu built by refreshButtons,  *)
(* the click handler of a menu button, and the double-click and drag       *)
(* handling of the floating button.  Timeouts carry their due time.        *)
(***************************************************************************)
EXTENDS Integers, Sequences, FiniteSets, TLC

VARIABLES
  now,               \* Date.now()
  page,              \* which page's script is running: login, register, generate, home
  failedAttempts,    \* let failedAttempts
  timeoutEndTime,    \* let timeoutEndTime (null or a number)
  lsFailedAttempts,  \* localStorage "failedAttempts"
  lsTimeoutEndTime,  \* localStorage "timeoutEndTime"
  submitBtn,         \* the submit button of the page's form
  guestBtn,          \* the guest login button (login page)
  timers,            \* the running countdown intervals, in creation order
  inflight,          \* pending fetches, per kind of submission
  errFields,         \* form fields carrying the "error" class
  toast,             \* the toast added by the last event, if any
  op                 \* the last event handled

VARIABLES
  serverUser,        \* what GET /usgromana/api/me answers for this session
  serverPolicy,      \* what GET /usgromana/api/groups answers (groups)
  currentUser,       \* let currentUser (null or the fetched object)
  groupsConfig,      \* let groupsConfig
  styleTags,         \* the <style> elements of document.head, in order
  modal,             \* the settings modal (.comfy-modal) and its category entries
  menu,              \* the entries present in the open workflow menu
  dialogs,           \* the confirm dialogs (.p-confirm-dialog) in the document
  runs,              \* suspended updateEnforcementStyles calls, per await
  shows,             \* suspended usgromanaDialog.show calls
  puts,              \* suspended perm-chk onchange handlers (PUT in flight)
  panel,             \* the admin panel is rendered (passed the admin guard)
  windowFetch,       \* window.fetch: the wrappers around the browser's fetch
  eop                \* the last engine event handled

VARIABLES
  registry,          \* window.UsgromanaRadialMenu._buttons
  instance,          \* window._usgromanaRadialMenu is set (the button exists)
  radialMenu,        \* this.radialMenu: its "active" class and its button elements
  menuOpen,          \* this.menuOpen
  lastClickTime,     \* this.lastClickTime
  hasMoved,          \* this.hasMoved
  isDragging,        \* this.isDragging
  clock,             \* Date.now() of the ComfyUI page
  timeouts,          \* the pending setTimeout callbacks of the floating button
  awaiting,          \* click handlers suspended at await result.catch(...), per fate
  calls,             \* how many times an onClick has been called
  prevClick,         \* the last click event on the floating button that followed no drag
  bop                \* the last radial-menu event handled

authVars == <<now, page, failedAttempts, timeoutEndTime, lsFailedAttempts,
              lsTimeoutEndTime, submitBtn, guestBtn, timers, inflight,
              errFields, toast, op>>

engineVars == <<serverUser, serverPolicy, currentUser, groupsConfig,
                styleTags, modal, menu, dialogs, runs, shows, puts, panel,
                windowFetch, eop>>

buttonVars == <<registry, instance, radialMenu, menuOpen, lastClickTime,
                hasMoved, isDragging, clock, timeouts, awaiting, calls,
                prevClick, bop>>

vars == <<authVars, engineVars, buttonVars>>

(*************************** bounds of the model ***************************)
StartTime == 1000
MaxNow == 3000
MaxInflight == 1

Delays == {250, 1000}

(***************************** program values ******************************)
\* a JS value that is either null / a missing key, or a number / its decimal string
Null == [k |-> "null", v |-> 0]
Num(n) == [k |-> "num", v |-> n]
IsNum(x) == x.k = "num"

\* truthiness of a number-or-null value
Truthy(x) == IsNum(x) /\ x.v # 0

\* parseInt(s, 10) || dflt, for s a stored decimal string or null
ParseIntOr(s, dflt) == IF Truthy(s) THEN s ELSE dflt

\* Math.round(ms / 1000): rounds half up
RoundSeconds(ms) == (ms + 500) \div 1000

Max(a, b) == IF a >= b THEN a ELSE b

Statuses == {200, 400, 401, 403, 500}
Accepted == {200, 400, 401, 403}
IsOk(status) == status >= 200 /\ status <= 299

\* the JSON body of a response, as far as the lockout controller reads it
Result(hf, f, hr, r) == [hasFa |-> hf, fa |-> f, hasRs |-> hr, rs |-> r]
NoPair == Result(FALSE, 0, FALSE, 0)
Results == { NoPair,
             Result(TRUE, 4, TRUE, 1),
             Result(TRUE, 0, TRUE, 2),
             Result(TRUE, 4, TRUE, 0) }

\* result.failed_attempts && result.remaining_seconds
HasServerPair(result) ==
  /\ result.hasFa /\ result.fa # 0
  /\ result.hasRs /\ result.rs # 0

Kinds == {"login", "guest", "register", "generate"}
Pages == {"login", "register", "generate"}

\* a button label
Label(t) == [t |-> t, m |-> 0, s |-> 0]
\* action.capitalize()
Capitalize(action) ==
  CASE action = "login" -> Label("Login")
    [] action = "register" -> Label("Register")
    [] action = "generate" -> Label("Generate")

\* `Wait ${remainingTimeMessage}`
WaitLabel(remainingTime) ==
  IF remainingTime > 60
  THEN [t |-> "Wait_min_s", m |-> remainingTime \div 60, s |-> remainingTime % 60]
  ELSE [t |-> "Wait_s", m |-> 0, s |-> remainingTime]

Button(d, l) == [disabled |-> d, label |-> l]

NoToast == [type |-> "none", msg |-> "none", secs |-> 0]
Toast(type, msg) == [type |-> type, msg |-> msg, secs |-> 0]

(************************** form validation ********************************)
Letters == {"a", "b", "d", "e", "m", "n", "o", "p", "r", "s", "w", "Z"}
Digits == {"0", "1"}
Whitespace == {" "}
\* the character class of the password's symbol test (quote characters,
\* backslash and backquote are written by name)
Symbols == {"!", "@", "#", "$", "%", "^", "&", "*", "(", ")", "_", "+", "-",
            "=", "[", "]", "{", "}", ";", "quote", ":", "dquote", "backslash",
            "|", ",", ".", "<", ">", "?", "/", "backquote", "~"}

HasChar(str, class) == \E i \in 1..Len(str) : str[i] \in class
HasCharOutside(str, class) == \E i \in 1..Len(str) : str[i] \notin class

\* str.trim().length
TrimStart(str) ==
  IF \A i \in 1..Len(str) : str[i] \in Whitespace THEN Len(str) + 1
  ELSE CHOOSE i \in 1..Len(str) :
         /\ str[i] \notin Whitespace
         /\ \A j \in 1..(i - 1) : str[j] \in Whitespace
TrimEnd(str) ==
  IF \A i \in 1..Len(str) : str[i] \in Whitespace THEN 0
  ELSE CHOOSE i \in 1..Len(str) :
         /\ str[i] \notin Whitespace
         /\ \A j \in (i + 1)..Len(str) : str[j] \in Whitespace
TrimLength(str) == Max(0, TrimEnd(str) - TrimStart(str) + 1)

Verdict(ok, msg, field) == [ok |-> ok, msg |-> msg, field |-> field]

\* mutant: the username's length test is trim().length < 2
ValidateRegisterForm_TwoChars(newUsername, newPassword) ==
  IF \/ HasCharOutside(newUsername, Letters \cup Digits \cup {"_"})
     \/ HasChar(newUsername, Whitespace)
  THEN Verdict(FALSE, "username_charset", {"new_user_username"})
  ELSE IF TrimLength(newUsername) = 0 \/ TrimLength(newUsername) < 2
  THEN Verdict(FALSE, "username_length", {"new_user_username"})
  ELSE IF TrimLength(newPassword) = 0 \/ HasChar(newPassword, Whitespace)
  THEN Verdict(FALSE, "password_spaces", {"new_user_password"})
  ELSE IF \/ TrimLength(newPassword) < 8
          \/ ~HasChar(newPassword, Digits)
          \/ ~HasChar(newPassword, Symbols)
  THEN Verdict(FALSE, "password_strength", {"new_user_password"})
  ELSE Verdict(TRUE, "none", {})

\* mutant: the password's symbol test is left out
ValidateRegisterForm_NoSymbolTest(newUsername, newPassword) ==
  IF \/ HasCharOutside(newUsername, Letters \cup Digits \cup {"_"})
     \/ HasChar(newUsername, Whitespace)
  THEN Verdict(FALSE, "username_charset", {"new_user_username"})
  ELSE IF TrimLength(newUsername) = 0 \/ TrimLength(newUsername) < 3
  THEN Verdict(FALSE, "username_length", {"new_user_username"})
  ELSE IF TrimLength(newPassword) = 0 \/ HasChar(newPassword, Whitespace)
  THEN Verdict(FALSE, "password_spaces", {"new_user_password"})
  ELSE IF \/ TrimLength(newPassword) < 8
          \/ ~HasChar(newPassword, Digits)
  THEN Verdict(FALSE, "password_strength", {"new_user_password"})
  ELSE Verdict(TRUE, "none", {})

ValidateRegisterForm(newUsername, newPassword) ==
  IF \/ HasCharOutside(newUsername, Letters \cup Digits \cup {"_"})
     \/ HasChar(newUsername, Whitespace)
  THEN Verdict(FALSE, "username_charset", {"new_user_username"})
  ELSE IF TrimLength(newUsername) = 0 \/ TrimLength(newUsername) < 3
  THEN Verdict(FALSE, "username_length", {"new_user_username"})
  ELSE IF TrimLength(newPassword) = 0 \/ HasChar(newPassword, Whitespace)
  THEN Verdict(FALSE, "password_spaces", {"new_user_password"})
  ELSE IF \/ TrimLength(newPassword) < 8
          \/ ~HasChar(newPassword, Digits)
          \/ ~HasChar(newPassword, Symbols)
  THEN Verdict(FALSE, "password_strength", {"new_user_password"})
  ELSE Verdict(TRUE, "none", {})

ValidateGenerateForm(expire_hours) ==
  IF \/ HasCharOutside(expire_hours, {"0", "1", "2", "3", "4", "5", "6", "7", "8", "9"})
     \/ HasChar(expire_hours, Whitespace)
  THEN Verdict(FALSE, "expire_digits", {"expire_hours"})
  ELSE Verdict(TRUE, "none", {})

\* the field values the user submits
Usernames == { <<"a", "b", "_", "1">>, <<"a", "b">>, <<"a", " ", "b">> }
Passwords == { <<"p", "a", "s", "s", "w", "0", "r", "d", "!">>,
               <<"p", "a", "s", "s", "w", "o", "r", "d", "1">> }
ExpireHours == { <<"1", "0">>, <<"1", "a">>, <<>> }

(************************* the lockout controller **************************)
\* The part of the page the controller reads and writes: the two variables,
\* the two localStorage items, the submit button of the form and its countdowns.
Ctl(fa, te, lsfa, lste, btn, tms) ==
  [fa |-> fa, te |-> te, lsfa |-> lsfa, lste |-> lste, btn |-> btn, timers |-> tms]

Current == Ctl(failedAttempts, timeoutEndTime, lsFailedAttempts,
               lsTimeoutEndTime, submitBtn, timers)

DisableForm(st, duration, action, t) ==
  IF duration > 0
  THEN [st EXCEPT !.btn.disabled = TRUE,
                  !.timers = Append(@, [rem |-> duration, due |-> t + 1000,
                                        action |-> action])]
  ELSE [st EXCEPT !.btn = Button(FALSE, Capitalize(action))]

LoadTimeoutFromStorage(st, action, t) ==
  LET savedFailedAttempts == ParseIntOr(st.lsfa, Num(0)).v
      savedLockoutEndTime == ParseIntOr(st.lste, Null)
      remainingTime ==
        IF Truthy(savedLockoutEndTime)
        THEN RoundSeconds(Max(0, savedLockoutEndTime.v - t))
        ELSE 0
      loaded == [st EXCEPT !.fa = savedFailedAttempts, !.te = savedLockoutEndTime]
  IN  IF remainingTime # 0 THEN DisableForm(loaded, remainingTime, action, t)
      ELSE loaded

\* mutant: the expiry computed without the conversion to milliseconds
SetTimeoutFromServer_Seconds(st, serverFailedAttempts, serverRemainingSeconds, action, t) ==
  LoadTimeoutFromStorage(
    [st EXCEPT !.lsfa = Num(serverFailedAttempts),
               !.lste = Num(t + serverRemainingSeconds)],
    action, t)

SetTimeoutFromServer(st, serverFailedAttempts, serverRemainingSeconds, action, t) ==
  LoadTimeoutFromStorage(
    [st EXCEPT !.lsfa = Num(serverFailedAttempts),
               !.lste = Num(t + serverRemainingSeconds * 1000)],
    action, t)

\* mutant: the thresholds tested from the lowest up
TimeoutDuration_LowestFirst(n) ==
  IF n >= 3 THEN 60
  ELSE IF n >= 6 THEN 90
  ELSE IF n >= 9 THEN 300
  ELSE 0

TimeoutDuration(n) ==
  IF n >= 9 THEN 300
  ELSE IF n >= 6 THEN 90
  ELSE IF n >= 3 THEN 60
  ELSE 0

\* mutant: a success does not clear the counter and the expiry
UpdateFailedAttempts_NoReset(st, responseStatus, result, action, t) ==
  IF responseStatus \notin Accepted THEN st
  ELSE IF HasServerPair(result)
  THEN SetTimeoutFromServer(st, result.fa, result.rs, action, t)
  ELSE
    LET cleared == IF FALSE
                   THEN [st EXCEPT !.lsfa = Null, !.lste = Null,
                                   !.fa = 0, !.te = Null]
                   ELSE st
        counted == IF responseStatus \notin {200, 400}
                   THEN [cleared EXCEPT !.fa = @ + 1]
                   ELSE cleared
        timeoutDuration == TimeoutDuration(counted.fa)
        stored == [counted EXCEPT !.lsfa = Num(counted.fa),
                                  !.te = Num(t + timeoutDuration * 1000),
                                  !.lste = Num(t + timeoutDuration * 1000)]
    IN  DisableForm(stored, timeoutDuration, action, t)

\* mutant: a 400 is counted as a failed attempt
UpdateFailedAttempts_Counting400(st, responseStatus, result, action, t) ==
  IF responseStatus \notin Accepted THEN st
  ELSE IF HasServerPair(result)
  THEN SetTimeoutFromServer(st, result.fa, result.rs, action, t)
  ELSE
    LET cleared == IF responseStatus = 200
                   THEN [st EXCEPT !.lsfa = Null, !.lste = Null,
                                   !.fa = 0, !.te = Null]
                   ELSE st
        counted == IF responseStatus \notin {200}
                   THEN [cleared EXCEPT !.fa = @ + 1]
                   ELSE cleared
        timeoutDuration == TimeoutDuration(counted.fa)
        stored == [counted EXCEPT !.lsfa = Num(counted.fa),
                                  !.te = Num(t + timeoutDuration * 1000),
                                  !.lste = Num(t + timeoutDuration * 1000)]
    IN  DisableForm(stored, timeoutDuration, action, t)

\* mutant: the status is not tested against the accepted set
UpdateFailedAttempts_AnyStatus(st, responseStatus, result, action, t) ==
  IF FALSE THEN st
  ELSE IF HasServerPair(result)
  THEN SetTimeoutFromServer(st, result.fa, result.rs, action, t)
  ELSE
    LET cleared == IF responseStatus = 200
                   THEN [st EXCEPT !.lsfa = Null, !.lste = Null,
                                   !.fa = 0, !.te = Null]
                   ELSE st
        counted == IF responseStatus \notin {200, 400}
                   THEN [cleared EXCEPT !.fa = @ + 1]
                   ELSE cleared
        timeoutDuration == TimeoutDuration(counted.fa)
        stored == [counted EXCEPT !.lsfa = Num(counted.fa),
                                  !.te = Num(t + timeoutDuration * 1000),
                                  !.lste = Num(t + timeoutDuration * 1000)]
    IN  DisableForm(stored, timeoutDuration, action, t)

UpdateFailedAttempts(st, responseStatus, result, action, t) ==
  IF responseStatus \notin Accepted THEN st
  ELSE IF HasServerPair(result)
  THEN SetTimeoutFromServer(st, result.fa, result.rs, action, t)
  ELSE
    LET cleared == IF responseStatus = 200
                   THEN [st EXCEPT !.lsfa = Null, !.lste = Null,
                                   !.fa = 0, !.te = Null]
                   ELSE st
        counted == IF responseStatus \notin {200, 400}
                   THEN [cleared EXCEPT !.fa = @ + 1]
                   ELSE cleared
        timeoutDuration == TimeoutDuration(counted.fa)
        stored == [counted EXCEPT !.lsfa = Num(counted.fa),
                                  !.te = Num(t + timeoutDuration * 1000),
                                  !.lste = Num(t + timeoutDuration * 1000)]
    IN  DisableForm(stored, timeoutDuration, action, t)

\* mutant: the comparison of isTimedOut() reversed
IsTimedOut_Reversed == Truthy(timeoutEndTime) /\ now > timeoutEndTime.v

\* isTimedOut(): the test, and the remaining time its toast names
IsTimedOut == Truthy(timeoutEndTime) /\ now < timeoutEndTime.v
LockedToast ==
  [type |-> "error", msg |-> "too_many_failed_attempts",
   secs |-> RoundSeconds(timeoutEndTime.v - now)]

(**************************** engine values ********************************)
GROUPS == {"admin", "power", "user", "guest"}

\* a capability value in a role's policy map: true, false, or no entry
Vals == {"true", "false", "undefined"}

\* the keys of CSS_BLOCK_MAP followed here, in the order of the table
TableKeys == <<"ui_queue_button", "ui_menu_save", "ui_menu_load",
               "ui_menu_extensions", "ui_menu_templates", "settings_comfy",
               "settings_usgromanasettings">>

TableKeySet == {TableKeys[i] : i \in 1..Len(TableKeys)}

\* can_modify_workflows is read by the dialog patch only; it has no selectors
Keys == TableKeySet \cup {"can_modify_workflows"}

NoUser == [set |-> FALSE, role |-> "", is_admin |-> FALSE]
User(role, isAdmin) == [set |-> TRUE, role |-> role, is_admin |-> isAdmin]

\* the sessions followed: one per role, and a guest the backend flagged admin
ServerUsers == {User("admin", TRUE), User("power", FALSE), User("user", FALSE),
                User("guest", FALSE), User("guest", TRUE)}

AllOf(v) == [k \in Keys |-> v]
SaveOnly == [AllOf("undefined") EXCEPT !["ui_menu_save"] = "true"]
RolePolicies == {AllOf("undefined"), AllOf("false"), AllOf("true"), SaveOnly}

\* the policy maps the server starts with: every role carries the same map
Policies == {[g \in GROUPS |-> p] : p \in RolePolicies}

\* groupsConfig: the roles it has an entry for, and their maps
EmptyConfig == [present |-> {}, cfg |-> [g \in GROUPS |-> AllOf("undefined")]]
Fetched(policy) == [present |-> GROUPS, cfg |-> policy]

\* Object.keys(groupsConfig).length === 0
IsEmptyConfig(gc) == gc.present = {}

\* groupsConfig[role] || {}
RoleCfg(gc, role) == gc.cfg[role]

\* currentUser.role || "user"
RoleOf(user) == IF user.role = "" THEN "user" ELSE user.role

NoRuns == [me |-> 0, groups |-> 0]
ClosedModal == [open |-> FALSE, hidden |-> {}]
\* the last engine event: a key event with what the guard did to it, a
\* wrapped fetch with what the watcher did, a tick with the step that threw,
\* whether the event wrote the rule-set into a new or an existing element,
\* and whether it ran updateEnforcementStyles into the admin bypass
\* what a call of fetch gives its caller: a response (its status, whether
\* its body is JSON, whether its body has been read) or an error
NoOutcome == [kind |-> "none", status |-> 0, json |-> FALSE, bodyUsed |-> FALSE]
FetchResolves(status, json) ==
  [kind |-> "resolves", status |-> status, json |-> json, bodyUsed |-> FALSE]
FetchRejects == [NoOutcome EXCEPT !.kind = "rejects"]

\* window.fetch: how many wrappedFetch functions stand around the browser's
\* fetch, whether the outermost carries __usgromanaWrapped, and how many
\* times the installer has been called
NativeFetch == [layers |-> 0, wrapped |-> FALSE, installs |-> 0]

\* installWorkflowSaveDeniedWatcher()
InstallWorkflowSaveDeniedWatcher_NoFlagTest(f) ==
  [f EXCEPT !.layers = @ + 1, !.wrapped = TRUE]

InstallWorkflowSaveDeniedWatcher(f) ==
  IF f.wrapped THEN f
  ELSE [f EXCEPT !.layers = @ + 1, !.wrapped = TRUE]

NoEvent == [name |-> "none", key |-> "", ctrl |-> FALSE, shift |-> FALSE,
            prevented |-> FALSE, stopped |-> FALSE, status |-> 0,
            workflowUrl |-> FALSE, shown |-> FALSE, logged |-> FALSE,
            thrown |-> "none", wrote |-> "none", bypassed |-> FALSE,
            orig |-> NoOutcome, got |-> NoOutcome, toasts |-> 0]
Event(name) == [NoEvent EXCEPT !.name = name]

\* the authentication pages do not load the extension
EngineIdle ==
  /\ serverUser = User("guest", FALSE)
  /\ serverPolicy = [g \in GROUPS |-> AllOf("undefined")]
  /\ currentUser = NoUser
  /\ groupsConfig = EmptyConfig
  /\ styleTags = <<>>
  /\ modal = ClosedModal
  /\ menu = {}
  /\ dialogs = <<>>
  /\ runs = NoRuns
  /\ shows = 0
  /\ puts = 0
  /\ panel = FALSE
  /\ windowFetch = NativeFetch
  /\ eop = NoEvent

(************************ floating button values ***************************)
\* an absent property of a config object
Undefined == [k |-> "undefined", v |-> 0]

\* the characters of /^[a-z0-9_-]+$/ (the lower-case letters the ids below use)
LowerLetters == {"a", "e", "g", "i", "l", "n", "r", "s", "t", "x", "y"}
IdChars == LowerLetters \cup Digits \cup {"_", "-"}
IdFormatOk(id) == Len(id) >= 1 /\ \A i \in 1..Len(id) : id[i] \in IdChars

SettingsId == <<"s", "e", "t", "t", "i", "n", "g", "s">>
LogoutId == <<"l", "o", "g", "o", "u", "t">>
GalleryId == <<"g", "a", "l", "l", "e", "r", "y">>

\* config.order !== undefined ? config.order : 100
DefaultOrder == 100
\* this.doubleClickDelay
doubleClickDelay == 300
\* const CLOSE_MS of hideRadialMenu
CLOSE_MS == 260
\* the delay of the click handler's setTimeout(() => this.hideRadialMenu(), 100)
HideDelay == 100
\* the delay of onPointerUp's setTimeout(() => { this.hasMoved = false }, 100)
MovedResetDelay == 100

\* label.charAt(0).toUpperCase()
FirstUpper(label) ==
  CASE label = "Gallery" -> "G"
    [] label = "sync" -> "S"
    [] OTHER -> ""

\* a config object handed to register(); set is FALSE for null / undefined
Config(id, label, onClick, icon, order) ==
  [set |-> TRUE, id |-> id, label |-> label, onClick |-> onClick,
   icon |-> icon, order |-> order]
NoConfig ==
  [set |-> FALSE, id |-> <<>>, label |-> "", onClick |-> FALSE, icon |-> "",
   order |-> Undefined]

\* a button of the registry or of the menu
RadialButton(id, label, icon, order) ==
  [id |-> id, label |-> label, icon |-> icon, order |-> order]

\* the two buttons refreshButtons puts in front of the registered ones
Settings == RadialButton(SettingsId, "Usgromana Settings", "gear", 0)
Logout == RadialButton(LogoutId, "Logout", "lock", 1)

\* a pending setTimeout callback
Timeout(kind, due) == [kind |-> kind, due |-> due]

\* what an onClick does when it is called
Outcomes == {"returns", "throws", "resolves", "rejects", "pending"}
Fates == {"resolves", "rejects", "pending"}
Settling == {"resolves", "rejects"}
NoneAwaiting == [f \in Fates |-> 0]

NoClick == [any |-> FALSE, at |-> 0, second |-> FALSE]

\* the last radial-menu event: the call and its argument, what it returned,
\* whether refreshButtons rebuilt the menu, and for a click on the floating
\* button whether handleDoubleClick ran
NoBOp ==
  [name |-> "none", config |-> NoConfig, id |-> <<>>, ret |-> FALSE,
   refreshed |-> FALSE, outcome |-> "none", double |-> FALSE]
BOp(name) == [NoBOp EXCEPT !.name = name]

\* the module has been loaded, setup()'s timeout has not run yet
ButtonIdle ==
  /\ registry = <<>>
  /\ instance = FALSE
  /\ radialMenu = [active |-> FALSE, els |-> <<>>]
  /\ menuOpen = FALSE
  /\ lastClickTime = 0
  /\ hasMoved = FALSE
  /\ isDragging = FALSE
  /\ clock = StartTime
  /\ timeouts = {}
  /\ awaiting = NoneAwaiting
  /\ calls = 0
  /\ prevClick = NoClick
  /\ bop = NoBOp

(******************************* the page **********************************)
\* the last event: its handler, the form values' verdict, the response it
\* handled and whether it sent a request
Op(name, kind, valid, status, result, sent) ==
  [name |-> name, kind |-> kind, valid |-> valid, status |-> status,
   result |-> result, sent |-> sent]

NoRequests == [k \in Kinds |-> 0]
Pending == inflight["login"] + inflight["guest"] + inflight["register"] + inflight["generate"]

\* the controller's part of the next state
Apply(st) ==
  /\ failedAttempts' = st.fa
  /\ timeoutEndTime' = st.te
  /\ lsFailedAttempts' = st.lsfa
  /\ lsTimeoutEndTime' = st.lste
  /\ submitBtn' = st.btn
  /\ timers' = st.timers

\* what earlier sessions may have left in localStorage
StoredCounts == {Null, Num(5), Num(8)}
StoredTimes == {Null, Num(StartTime + 1250)}

\* The script of a freshly loaded page: lines 1-2, then the call of
\* loadTimeoutFromStorage with the action named by the path.
FreshPage(p, lsfa, lste, t) ==
  LoadTimeoutFromStorage(
    Ctl(0, Null, lsfa, lste, Button(FALSE, Capitalize(p)), <<>>), p, t)

Init ==
  /\ now = StartTime
  /\ page \in Pages
  /\ \E lsfa \in StoredCounts, lste \in StoredTimes :
       LET st == FreshPage(page, lsfa, lste, now)
       IN  /\ failedAttempts = st.fa
           /\ timeoutEndTime = st.te
           /\ lsFailedAttempts = st.lsfa
           /\ lsTimeoutEndTime = st.lste
           /\ submitBtn = st.btn
           /\ timers = st.timers
  /\ guestBtn = Button(FALSE, Label("Guest Login"))
  /\ inflight = NoRequests
  /\ errFields = {}
  /\ toast = NoToast
  /\ op = Op("load", page, TRUE, 0, NoPair, FALSE)
  /\ EngineIdle
  /\ ButtonIdle

\* the user opens (or reloads) one of the pages
Load(p) ==
  /\ Apply(FreshPage(p, lsFailedAttempts, lsTimeoutEndTime, now))
  /\ page' = p
  /\ guestBtn' = Button(FALSE, Label("Guest Login"))
  /\ inflight' = NoRequests
  /\ errFields' = {}
  /\ toast' = NoToast
  /\ op' = Op("load", p, TRUE, 0, NoPair, FALSE)
  /\ UNCHANGED <<engineVars, buttonVars>>
  /\ UNCHANGED now

\* a submission that goes no further than isTimedOut()
Rejected(kind) ==
  /\ toast' = LockedToast
  /\ op' = Op("submit", kind, TRUE, 0, NoPair, FALSE)
  /\ UNCHANGED <<engineVars, buttonVars>>
  /\ UNCHANGED <<now, page, failedAttempts, timeoutEndTime, lsFailedAttempts,
                 lsTimeoutEndTime, submitBtn, guestBtn, timers, inflight>>

\* a request leaves, as long as fewer than `bound` are followed at once
SendUnder(kind, bound) ==
  /\ Pending < bound
  /\ inflight' = [inflight EXCEPT ![kind] = @ + 1]
  /\ op' = Op("submit", kind, TRUE, 0, NoPair, TRUE)
  /\ UNCHANGED <<engineVars, buttonVars>>
  /\ UNCHANGED <<now, page, failedAttempts, timeoutEndTime, lsFailedAttempts,
                 lsTimeoutEndTime, timers>>

Send(kind) == SendUnder(kind, MaxInflight)

\* login(event)
SubmitLoginUnder(bound) ==
  /\ page = "login"
  /\ ~submitBtn.disabled
  /\ IF IsTimedOut
     THEN Rejected("login") /\ UNCHANGED errFields
     ELSE /\ SendUnder("login", bound)
          /\ errFields' = errFields \ {"username", "password"}
          /\ submitBtn' = Button(TRUE, Label("Sending..."))
          /\ toast' = NoToast
          /\ UNCHANGED guestBtn

SubmitLogin == SubmitLoginUnder(MaxInflight)

\* guestLogin(event)
SubmitGuestUnder(bound) ==
  /\ page = "login"
  /\ ~guestBtn.disabled
  /\ IF IsTimedOut
     THEN Rejected("guest") /\ UNCHANGED errFields
     ELSE /\ SendUnder("guest", bound)
          /\ guestBtn' = Button(TRUE, Label("Signing in as guest..."))
          /\ submitBtn' = [submitBtn EXCEPT !.disabled = TRUE]
          /\ toast' = NoToast
          /\ UNCHANGED errFields

SubmitGuest == SubmitGuestUnder(MaxInflight)

\* mutant: the verdict of validateRegisterForm() is not tested
SubmitRegister_VerdictIgnored(newUsername, newPassword) ==
  LET v == ValidateRegisterForm(newUsername, newPassword)
      marked == (errFields \ {"new_user_username", "new_user_password"}) \cup v.field
  IN
  /\ page = "register"
  /\ ~submitBtn.disabled
  /\ errFields' = marked
  /\ IF IsTimedOut
     THEN /\ toast' = LockedToast
          /\ op' = Op("submit", "register", v.ok, 0, NoPair, FALSE)
          /\ UNCHANGED <<engineVars, buttonVars>>
          /\ UNCHANGED <<now, page, failedAttempts, timeoutEndTime, lsFailedAttempts,
                         lsTimeoutEndTime, submitBtn, guestBtn, timers, inflight>>
     ELSE /\ Pending < MaxInflight
          /\ inflight' = [inflight EXCEPT !["register"] = @ + 1]
          /\ op' = Op("submit", "register", v.ok, 0, NoPair, TRUE)
          /\ UNCHANGED <<engineVars, buttonVars>>
          /\ submitBtn' = Button(TRUE, Label("Sending..."))
          /\ toast' = IF v.ok THEN NoToast ELSE Toast("error", v.msg)
          /\ UNCHANGED <<now, page, failedAttempts, timeoutEndTime, lsFailedAttempts,
                         lsTimeoutEndTime, guestBtn, timers>>

\* register(event)
SubmitRegister(newUsername, newPassword) ==
  LET v == ValidateRegisterForm(newUsername, newPassword)
      marked == (errFields \ {"new_user_username", "new_user_password"}) \cup v.field
  IN
  /\ page = "register"
  /\ ~submitBtn.disabled
  /\ errFields' = marked
  /\ IF ~v.ok
     THEN /\ toast' = Toast("error", v.msg)
          /\ op' = Op("submit", "register", FALSE, 0, NoPair, FALSE)
          /\ UNCHANGED <<engineVars, buttonVars>>
          /\ UNCHANGED <<now, page, failedAttempts, timeoutEndTime, lsFailedAttempts,
                         lsTimeoutEndTime, submitBtn, guestBtn, timers, inflight>>
     ELSE IF IsTimedOut
     THEN Rejected("register")
     ELSE /\ Send("register")
          /\ submitBtn' = Button(TRUE, Label("Sending..."))
          /\ toast' = NoToast
          /\ UNCHANGED guestBtn

\* generate(event)
SubmitGenerate(expire_hours) ==
  LET v == ValidateGenerateForm(expire_hours)
      marked == (errFields \ {"username", "password", "expire_hours"}) \cup v.field
  IN
  /\ page = "generate"
  /\ ~submitBtn.disabled
  /\ errFields' = marked
  /\ IF ~v.ok
     THEN /\ toast' = Toast("error", v.msg)
          /\ op' = Op("submit", "generate", FALSE, 0, NoPair, FALSE)
          /\ UNCHANGED <<engineVars, buttonVars>>
          /\ UNCHANGED <<now, page, failedAttempts, timeoutEndTime, lsFailedAttempts,
                         lsTimeoutEndTime, submitBtn, guestBtn, timers, inflight>>
     ELSE IF IsTimedOut
     THEN Rejected("generate")
     ELSE /\ Send("generate")
          /\ submitBtn' = Button(TRUE, Label("Sending..."))
          /\ toast' = NoToast
          /\ UNCHANGED guestBtn

\* window.location.href = ...: the handler runs to its end, then the page is
\* left, and its timers and pending continuations with it
Leave(st) ==
  /\ failedAttempts' = st.fa
  /\ timeoutEndTime' = st.te
  /\ lsFailedAttempts' = st.lsfa
  /\ lsTimeoutEndTime' = st.lste
  /\ submitBtn' = st.btn
  /\ timers' = <<>>
  /\ page' = "home"
  /\ inflight' = NoRequests

Stay(st, kind) ==
  /\ Apply(st)
  /\ inflight' = [inflight EXCEPT ![kind] = @ - 1]
  /\ UNCHANGED page

\* login: the continuation after `await response.json()`
RespondLogin(status, result) ==
  LET st == UpdateFailedAttempts(Current, status, result, "login", now)
  IN
  /\ page = "login"
  /\ inflight["login"] > 0
  /\ IF IsOk(status)
     THEN /\ toast' = Toast("success", "login")
          /\ Leave(st)
          /\ UNCHANGED errFields
     ELSE /\ toast' = Toast("error", "login_failed")
          /\ errFields' = errFields \cup {"username", "password"}
          /\ Stay(st, "login")
  /\ op' = Op("respond", "login", TRUE, status, result, FALSE)
  /\ UNCHANGED <<engineVars, buttonVars>>
  /\ UNCHANGED <<now, guestBtn>>

\* guestLogin: the continuation, with its finally block
RespondGuest(status, result) ==
  LET st == UpdateFailedAttempts(Current, status, result, "login", now)
      restored == [st EXCEPT !.btn = Button(FALSE, Label("Login"))]
  IN
  /\ page = "login"
  /\ inflight["guest"] > 0
  /\ IF IsOk(status)
     THEN /\ toast' = Toast("success", "guest_login")
          /\ Leave(restored)
     ELSE /\ toast' = Toast("error", "guest_login_failed")
          /\ Stay(restored, "guest")
  /\ guestBtn' = Button(FALSE, Label("Guest Login"))
  /\ op' = Op("respond", "guest", TRUE, status, result, FALSE)
  /\ UNCHANGED <<engineVars, buttonVars>>
  /\ UNCHANGED <<now, errFields>>

\* register: the continuation; a success calls updateFailedAttempts twice
RespondRegister(status, result, isAdminUser) ==
  LET once == UpdateFailedAttempts(Current, status, result, "register", now)
      twice == UpdateFailedAttempts(once, status, result, "register", now)
  IN
  /\ page = "register"
  /\ inflight["register"] > 0
  /\ IF IsOk(status)
     THEN /\ toast' = Toast("success", "register")
          /\ IF isAdminUser THEN Leave(twice) ELSE Stay(twice, "register")
     ELSE /\ toast' = Toast("error", "registration_failed")
          /\ Stay(once, "register")
  /\ op' = Op("respond", "register", TRUE, status, result, FALSE)
  /\ UNCHANGED <<engineVars, buttonVars>>
  /\ UNCHANGED <<now, guestBtn, errFields>>

\* generate: the continuation; a success calls updateFailedAttempts twice
RespondGenerate(status, result) ==
  LET once == UpdateFailedAttempts(Current, status, result, "generate", now)
      twice == UpdateFailedAttempts(once, status, result, "generate", now)
  IN
  /\ page = "generate"
  /\ inflight["generate"] > 0
  /\ IF IsOk(status)
     THEN /\ toast' = Toast("success", "generate")
          /\ Stay(twice, "generate")
     ELSE /\ toast' = Toast("error", "generation_failed")
          /\ Stay(once, "generate")
  /\ op' = Op("respond", "generate", TRUE, status, result, FALSE)
  /\ UNCHANGED <<engineVars, buttonVars>>
  /\ UNCHANGED <<now, guestBtn, errFields>>

\* mutant: the catch block counts the failure as a failed attempt
Fail_Counted(kind) ==
  LET st == UpdateFailedAttempts(Current, 401, NoPair,
                                 IF kind = "guest" THEN "login" ELSE kind, now)
  IN
  /\ page # "home"
  /\ inflight[kind] > 0
  /\ inflight' = [inflight EXCEPT ![kind] = @ - 1]
  /\ toast' = Toast("error", "an_error_occurred")
  /\ failedAttempts' = st.fa
  /\ timeoutEndTime' = st.te
  /\ lsFailedAttempts' = st.lsfa
  /\ lsTimeoutEndTime' = st.lste
  /\ timers' = st.timers
  /\ submitBtn' = Button(FALSE, Capitalize(IF kind = "guest" THEN "login" ELSE kind))
  /\ guestBtn' = IF kind = "guest" THEN Button(FALSE, Label("Guest Login")) ELSE guestBtn
  /\ op' = Op("fail", kind, TRUE, 0, NoPair, FALSE)
  /\ UNCHANGED <<engineVars, buttonVars>>
  /\ UNCHANGED <<now, page, errFields>>

\* fetch rejects or response.json() throws: the catch block (and, for the
\* guest login, the finally block)
Fail(kind) ==
  /\ page # "home"
  /\ inflight[kind] > 0
  /\ inflight' = [inflight EXCEPT ![kind] = @ - 1]
  /\ toast' = Toast("error", "an_error_occurred")
  /\ submitBtn' = Button(FALSE, Label(CASE kind = "login" -> "Login"
                                        [] kind = "guest" -> "Login"
                                        [] kind = "register" -> "Register"
                                        [] kind = "generate" -> "Generate"))
  /\ guestBtn' = IF kind = "guest" THEN Button(FALSE, Label("Guest Login")) ELSE guestBtn
  /\ op' = Op("fail", kind, TRUE, 0, NoPair, FALSE)
  /\ UNCHANGED <<engineVars, buttonVars>>
  /\ UNCHANGED <<now, page, failedAttempts, timeoutEndTime, lsFailedAttempts,
                 lsTimeoutEndTime, timers, errFields>>

\* the setInterval callback of disableForm, for the first countdown that is due
IsDue(i) == timers[i].due = now /\ \A j \in 1..(i - 1) : timers[j].due # now
Without(seq, i) == SubSeq(seq, 1, i - 1) \o SubSeq(seq, i + 1, Len(seq))

Tick ==
  \E i \in 1..Len(timers) :
    /\ IsDue(i)
    /\ LET remainingTime == timers[i].rem - 1
       IN  IF remainingTime <= 0
           THEN /\ timers' = Without(timers, i)
                /\ submitBtn' = Button(FALSE, Capitalize(timers[i].action))
           ELSE /\ timers' = [timers EXCEPT ![i].rem = remainingTime,
                                            ![i].due = @ + 1000]
                /\ submitBtn' = [submitBtn EXCEPT !.label = WaitLabel(timers[i].rem)]
    /\ op' = Op("tick", timers[i].action, TRUE, 0, NoPair, FALSE)
    /\ UNCHANGED <<engineVars, buttonVars>>
    /\ toast' = NoToast
    /\ UNCHANGED <<now, page, failedAttempts, timeoutEndTime, lsFailedAttempts,
                   lsTimeoutEndTime, guestBtn, inflight, errFields>>

\* time passes; a countdown fires when it is due
AdvanceUntil(d, horizon) ==
  /\ now + d <= horizon
  /\ \A i \in 1..Len(timers) : timers[i].due >= now + d
  /\ now' = now + d
  /\ op' = Op("advance", "none", TRUE, 0, NoPair, FALSE)
  /\ UNCHANGED <<engineVars, buttonVars>>
  /\ toast' = NoToast
  /\ UNCHANGED <<page, failedAttempts, timeoutEndTime, lsFailedAttempts,
                 lsTimeoutEndTime, submitBtn, guestBtn, timers, inflight,
                 errFields>>

Advance(d) == AdvanceUntil(d, MaxNow)

Next ==
  \/ \E p \in Pages : Load(p)
  \/ SubmitLogin
  \/ SubmitGuest
  \/ \E u \in Usernames, pw \in Passwords : SubmitRegister(u, pw)
  \/ \E e \in ExpireHours : SubmitGenerate(e)
  \/ \E s \in Statuses, r \in Results : RespondLogin(s, r)
  \/ \E s \in Statuses, r \in Results : RespondGuest(s, r)
  \/ \E s \in Statuses, r \in Results, a \in BOOLEAN : RespondRegister(s, r, a)
  \/ \E s \in Statuses, r \in Results : RespondGenerate(s, r)
  \/ \E k \in Kinds : Fail(k)
  \/ Tick
  \/ \E d \in Delays : Advance(d)

Spec == Init /\ [][Next]_vars

(******************************* properties ********************************)
\* a lockout is active: the current time is before the expiry held in memory
Locked == timeoutEndTime.k = "num" /\ now < timeoutEndTime.v
\* the expiry read back from localStorage is still ahead
PersistedLocked == lsTimeoutEndTime.k = "num" /\ now < lsTimeoutEndTime.v

AttemptUnchanged ==
  /\ failedAttempts' = failedAttempts
  /\ timeoutEndTime' = timeoutEndTime
  /\ lsFailedAttempts' = lsFailedAttempts
  /\ lsTimeoutEndTime' = lsTimeoutEndTime

\* the payload carries both fields / carries both with non-zero values
CarriesPair(result) == result.hasFa /\ result.hasRs
CarriesNonZeroPair(result) == CarriesPair(result) /\ result.fa # 0 /\ result.rs # 0

\* C1: a submit event (login, guest login, registration, token generation)
\* that occurs while a lockout is active sends no request and leaves the
\* attempt state, in memory and persisted, as it was.
C1_LockedSubmitSendsNothing ==
  [][ (op'.name = "submit" /\ Locked)
        => (~op'.sent /\ inflight' = inflight /\ AttemptUnchanged) ]_vars

C1_Witness ==
  /\ op.name = "submit" /\ op.kind = "login" /\ op.valid /\ ~op.sent
  /\ Locked
  /\ toast.msg = "too_many_failed_attempts"

\* C2 (as amended): a response with an accepted status whose payload carries
\* failed_attempts and remaining_seconds, both non-zero, leaves failedCount =
\* failed_attempts and lockoutUntil = now + remaining_seconds * 1000, in
\* memory and persisted, whatever the local counter and thresholds say.
C2_ServerPairWinsWhenAcceptedAndNonZero ==
  (op.name = "respond" /\ op.status \in Accepted /\ CarriesNonZeroPair(op.result))
    => /\ failedAttempts = op.result.fa
       /\ lsFailedAttempts = Num(op.result.fa)
       /\ timeoutEndTime = Num(now + op.result.rs * 1000)
       /\ lsTimeoutEndTime = Num(now + op.result.rs * 1000)

C2_Witness ==
  /\ op.name = "respond" /\ op.status = 401
  /\ op.result = Result(TRUE, 4, TRUE, 1)
  /\ failedAttempts = 4
  /\ timeoutEndTime = Num(now + 1000)

\* C2 (as stated): for every status code and every value of the pair, a
\* payload carrying both fields overwrites the attempt state.
C2_Original ==
  (op.name = "respond" /\ CarriesPair(op.result))
    => /\ failedAttempts = op.result.fa
       /\ lsFailedAttempts = Num(op.result.fa)
       /\ timeoutEndTime = Num(now + op.result.rs * 1000)
       /\ lsTimeoutEndTime = Num(now + op.result.rs * 1000)

\* C3 (as amended): after a response with status 200 whose payload carries no
\* non-zero server pair, failedCount is 0 in memory and persisted, and no
\* lockout is pending: lockoutUntil is the time of the response, in memory
\* and persisted, so isTimedOut() is false.
C3_SuccessWithoutPairResets ==
  (op.name = "respond" /\ op.status = 200 /\ ~CarriesNonZeroPair(op.result))
    => /\ failedAttempts = 0
       /\ lsFailedAttempts = Num(0)
       /\ timeoutEndTime = Num(now)
       /\ lsTimeoutEndTime = Num(now)
       /\ ~Locked /\ ~PersistedLocked

C3_Witness ==
  /\ op.name = "respond" /\ op.kind = "generate" /\ op.status = 200
  /\ op.result = NoPair
  /\ failedAttempts = 0 /\ lsFailedAttempts = Num(0)
  /\ ~Locked

\* C3 (as stated): after any response with status 200, failedCount is 0 and
\* no lockout is pending, in memory and persisted.
C3_Original ==
  (op.name = "respond" /\ op.status = 200)
    => /\ failedAttempts = 0
       /\ ParseIntOr(lsFailedAttempts, Num(0)).v = 0
       /\ ~Locked /\ ~PersistedLocked

\* the step function the claim gives for the lockout duration, in seconds
ClaimedDuration(n) ==
  CASE n < 3 -> 0
    [] n >= 3 /\ n <= 5 -> 60
    [] n >= 6 /\ n <= 8 -> 90
    [] n >= 9 -> 300

MaxCount == 12

\* C4: the lockout computed from the local counter lasts 0 s below 3 failed
\* attempts, 60 s for 3..5, 90 s for 6..8 and 300 s from 9 on, and the
\* duration never decreases as the counter grows.
C4_DurationIsStepFunction ==
  /\ (op.name = "respond" /\ op.status \in Accepted /\ ~CarriesNonZeroPair(op.result))
       => /\ timeoutEndTime = Num(now + 1000 * ClaimedDuration(failedAttempts))
          /\ lsTimeoutEndTime = timeoutEndTime
  /\ \A a \in 0..MaxCount, b \in 0..MaxCount :
       a <= b => TimeoutDuration(a) <= TimeoutDuration(b)
  /\ \A n \in 0..MaxCount : TimeoutDuration(n) = ClaimedDuration(n)

C4_Witness ==
  /\ op.name = "respond" /\ op.status = 401 /\ op.result = NoPair
  /\ failedAttempts = 9
  /\ timeoutEndTime = Num(now + 300000)

C6_OtherStatusIgnored ==
  [][ (op'.name = "respond" /\ op'.status \notin {200, 400, 401, 403}
         /\ ~CarriesPair(op'.result))
        => AttemptUnchanged ]_vars

C6_Witness ==
  /\ op.name = "respond" /\ op.status = 500 /\ op.result = NoPair
  /\ failedAttempts = 2

\* C7: a page loaded while a persisted lockout is unexpired takes the
\* persisted attempt state into memory, is locked out, and has its submit
\* control disabled with a countdown running from the moment of the load.
C7_ReloadShowsLockout ==
  (op.name = "load" /\ PersistedLocked)
    => /\ failedAttempts = ParseIntOr(lsFailedAttempts, Num(0)).v
       /\ timeoutEndTime = lsTimeoutEndTime
       /\ Locked
       /\ submitBtn.disabled
       /\ Len(timers) > 0

\* Three failed logins in a row, from a clean start, and the countdown that
\* follows: the login page with nothing persisted, every response a 403
\* without a server pair, time passing in whole seconds.
ScenarioEnd == 70000

InitThreeFailures ==
  /\ now = StartTime
  /\ page = "login"
  /\ failedAttempts = 0
  /\ timeoutEndTime = Null
  /\ lsFailedAttempts = Null
  /\ lsTimeoutEndTime = Null
  /\ submitBtn = Button(FALSE, Label("Login"))
  /\ guestBtn = Button(FALSE, Label("Guest Login"))
  /\ timers = <<>>
  /\ inflight = NoRequests
  /\ errFields = {}
  /\ toast = NoToast
  /\ op = Op("load", "login", TRUE, 0, NoPair, FALSE)
  /\ EngineIdle
  /\ ButtonIdle

NextThreeFailures ==
  \/ SubmitLogin
  \/ RespondLogin(403, NoPair)
  \/ Tick
  \/ AdvanceUntil(1000, ScenarioEnd)

SpecThreeFailures == InitThreeFailures /\ [][NextThreeFailures]_vars

\* C8: the third consecutive 403 starts a 60 s lockout with the login control
\* disabled; the first tick labels it "Wait 60s", every later tick one lower,
\* and the countdown is cancelled and the control re-enabled as "Login" only
\* after the label has shown "Wait 1s".
C8_CountdownShowsSixtyDownToOne ==
  [][ /\ (op'.name = "respond" /\ failedAttempts' = 3)
           => /\ timeoutEndTime' = Num(now + 60000)
              /\ submitBtn'.disabled
              /\ timers' = <<[rem |-> 60, due |-> now + 1000, action |-> "login"]>>
      /\ (op'.name = "tick" /\ Len(timers') = Len(timers))
           => /\ submitBtn'.label = WaitLabel(timers[1].rem)
              /\ timers'[1].rem = timers[1].rem - 1
              /\ submitBtn'.disabled
      /\ (op'.name = "tick" /\ Len(timers') < Len(timers))
           => /\ submitBtn.label = WaitLabel(1)
              /\ submitBtn' = Button(FALSE, Label("Login")) ]_vars

\* the original label of the page's submit control
OriginalLabel(p) == Capitalize(p)

\* C9: when the request fails in transport or its body is no JSON, the
\* submit control is enabled again with its original label, an error toast
\* is shown and the attempt state, in memory and persisted, is unchanged.
C9_TransportFailureRestoresControl ==
  [][ op'.name = "fail"
        => /\ ~submitBtn'.disabled
           /\ submitBtn'.label = OriginalLabel(page)
           /\ (op'.kind = "guest" => guestBtn' = Button(FALSE, Label("Guest Login")))
           /\ toast'.type = "error"
           /\ AttemptUnchanged ]_vars

C9_Witness ==
  /\ op.name = "fail" /\ op.kind = "register"
  /\ submitBtn = Button(FALSE, Label("Register"))
  /\ toast = Toast("error", "an_error_occurred")
  /\ failedAttempts = 5

\* C10: a registration or token generation whose form values are rejected
\* by validation sends no request and leaves the attempt state unchanged,
\* with or without an active lockout.
C10_InvalidFormSendsNothing ==
  [][ (op'.name = "submit" /\ ~op'.valid)
        => (~op'.sent /\ inflight' = inflight /\ AttemptUnchanged) ]_vars

C10_Witness ==
  /\ op.name = "submit" /\ op.kind = "register" /\ ~op.valid /\ ~op.sent
  /\ Locked
  /\ toast.type = "error" /\ toast.msg # "too_many_failed_attempts"

(************************* the enforcement engine ***************************)
\* the engine's view of the page: the two caches and the document
Eng(cu, gc, tags, mod, men, dlgs, rns) ==
  [cu |-> cu, gc |-> gc, tags |-> tags, modal |-> mod, menu |-> men,
   dialogs |-> dlgs, runs |-> rns, wrote |-> "none", bypassed |-> FALSE]

CurrentEng == Eng(currentUser, groupsConfig, styleTags, modal, menu, dialogs,
                  runs)

StyleId == "usgromana-css-block"

\* document.getElementById: the first element carrying exactly that id, or 0
GetElementById(tags, id) ==
  IF \E i \in 1..Len(tags) : tags[i].id = id
  THEN CHOOSE i \in 1..Len(tags) :
         /\ tags[i].id = id
         /\ \A j \in 1..(i - 1) : tags[j].id # id
  ELSE 0

\* the rules that close every rule-set
BlockedItemRule == ".usgromana-blocked-item"
AlwaysVisibleRule == "#usgromana-settings-logout-btn"
UsgromanaMenuRule == "li[aria-label='usgromana']"

\* the guest loop: a key is suppressed unless its value is exactly true,
\* and the Usgromana settings entry is skipped
GuestRules(cfg) ==
  SelectSeq(TableKeys,
            LAMBDA key : /\ key # "settings_usgromanasettings"
                         /\ ~(cfg[key] = "true"))

\* the non-guest loop: undefined counts as true, only false is suppressed
NonGuestRules_UnlessTrue(cfg) ==
  SelectSeq(TableKeys, LAMBDA key : cfg[key] # "true")

NonGuestRules(cfg) ==
  SelectSeq(TableKeys,
            LAMBDA key : LET val == IF cfg[key] = "undefined" THEN "true"
                                    ELSE cfg[key]
                         IN  val = "false")

\* the text given to the style element
Css(role, cfg) ==
  IF role = "guest"
  THEN GuestRules(cfg) \o <<BlockedItemRule, AlwaysVisibleRule, UsgromanaMenuRule>>
  ELSE NonGuestRules(cfg) \o <<BlockedItemRule, AlwaysVisibleRule>>

\* get or create the style element, then overwrite its text
SetStyle_AlwaysCreate(tags, css) ==
  Append(tags, [id |-> StyleId, content |-> css])

SetStyle(tags, css) ==
  LET i == GetElementById(tags, StyleId)
  IN  IF i = 0 THEN Append(tags, [id |-> StyleId, content |-> css])
      ELSE [tags EXCEPT ![i].content = css]

\* the admin bypass looks the element up under a differently cased id
ClearStyle(tags) ==
  LET i == GetElementById(tags, "Usgromana-css-block")
  IN  IF i = 0 THEN tags ELSE [tags EXCEPT ![i].content = <<>>]

\* the category entries of the settings modal, by their text
ModalEntries == {"Comfy"}

\* the logout button of the Usgromana settings row, by its text, and the
\* items of the modal the sidebar scanner walks over
LogoutText == "Logout current user"
ModalItems == ModalEntries \cup {LogoutText}

\* getSanitizedId: "settings_" + the trimmed, lower-cased text without
\* anything but letters and digits, for the texts followed here
GetSanitizedId(text) ==
  CASE text = "Comfy" -> "settings_comfy"
    [] text = "Usgromana Settings" -> "settings_usgromanasettings"
    [] text = "Logout current user" -> "settings_logoutcurrentuser"
    [] OTHER -> "settings_"

\* cfg[key] for a key that may not be in the map at all
Lookup(cfg, key) == IF key \in DOMAIN cfg THEN cfg[key] ELSE "undefined"

\* the default rule of the scanners: undefined blocks a guest, allows others
ScannerBlocks_UndefinedAllows(cfg, key, role) ==
  Lookup(cfg, key) = "false"
ScannerBlocks(cfg, key, role) ==
  LET raw == Lookup(cfg, key)
      val == IF raw = "undefined"
             THEN (IF role # "guest" THEN "true" ELSE "false")
             ELSE raw
  IN  val = "false"

\* the scanner leaves out the logout button, whatever the map says
EnforceSidebar_NoExemption(e, cfg, role) ==
  IF ~e.modal.open THEN e
  ELSE [e EXCEPT !.modal.hidden =
          {t \in ModalItems : ScannerBlocks(cfg, GetSanitizedId(t), role)}]

EnforceSidebar(e, cfg, role) ==
  IF ~e.modal.open THEN e
  ELSE [e EXCEPT !.modal.hidden =
          {t \in ModalItems : /\ t # LogoutText
                               /\ ScannerBlocks(cfg, GetSanitizedId(t), role)}]

\* the end of a pass: the logout button loses the blocked-item marker and
\* gets display block
EnsureLogoutVisible(e) == [e EXCEPT !.modal.hidden = @ \ {LogoutText}]

\* the entries of the workflow menu and the capability that removes them
MenuEntries == {"Browse Templates", "Manage Extensions", "Save", "Save As",
                "Open"}

MenuKey(entry) ==
  CASE entry = "Browse Templates" -> "ui_menu_templates"
    [] entry = "Manage Extensions" -> "ui_menu_extensions"
    [] entry \in {"Save", "Save As", "Export", "Export (API)"} -> "ui_menu_save"
    [] entry = "Open" -> "ui_menu_load"

EnforceMenus(e, cfg, role) ==
  [e EXCEPT !.menu = {m \in @ : ~ScannerBlocks(cfg, MenuKey(m), role)}]

\* label.includes("save") on the trimmed, lower-cased label of a button
IncludesSave(label) ==
  CASE label = "Save" -> TRUE
    [] label = "Don't save" -> TRUE
    [] label = "Close without saving" -> FALSE
    [] label = "Cancel" -> FALSE
    [] OTHER -> FALSE

\* a dialog "looks like a save prompt" when its title and message contain
\* save, unsaved or changes
LooksLikeSavePrompt(text) ==
  CASE text = "Unsaved changes" -> TRUE
    [] text = "Save Changes?" -> TRUE
    [] text = "Delete workflow?" -> FALSE
    [] OTHER -> FALSE

\* a button of a confirm dialog: what it does, the PrimeVue marking it
\* carries, its label, and the capture blockers attached to it
Btn(kind, mark, label) ==
  [kind |-> kind, mark |-> mark, label |-> label, blockers |-> 0,
   dimmed |-> FALSE]

\* the layouts followed: PrimeVue's own classes, the data-pc-section
\* attribute only, and unmarked buttons found by their labels
Layouts ==
  { <<Btn("reject", "p-confirm-dialog-reject", "Cancel"),
      Btn("accept", "p-confirm-dialog-accept", "Save")>>,
    <<Btn("reject", "rejectbutton", "Close without saving"),
      Btn("accept", "acceptbutton", "Save")>>,
    <<Btn("reject", "none", "Cancel"),
      Btn("accept", "none", "Save")>>,
    <<Btn("reject", "none", "Don't save"),
      Btn("accept", "none", "Save")>> }

DialogTexts == {"Unsaved changes", "Delete workflow?"}

Dialog(text, buttons) ==
  [text |-> text, patched |-> FALSE, rewrites |-> 0, buttons |-> buttons]

\* querySelector over the buttons: the first one that matches, or 0
FirstButton(matches) ==
  IF \E i \in 1..Len(matches) : matches[i]
  THEN CHOOSE i \in 1..Len(matches) :
         /\ matches[i]
         /\ \A j \in 1..(i - 1) : ~matches[j]
  ELSE 0

\* the button taken for the save button
SaveBtn(buttons) ==
  LET byClass == FirstButton([i \in 1..Len(buttons) |->
                   buttons[i].mark = "p-confirm-dialog-accept"])
      byAttr  == FirstButton([i \in 1..Len(buttons) |->
                   buttons[i].mark = "acceptbutton"])
      byLabel == FirstButton([i \in 1..Len(buttons) |->
                   IncludesSave(buttons[i].label)])
  IN  IF byClass # 0 THEN byClass
      ELSE IF byAttr # 0 THEN byAttr
      ELSE byLabel

\* whether this role may save or modify workflows
CanModify(cfg, role) ==
  IF cfg["can_modify_workflows"] = "false" THEN FALSE
  ELSE IF role = "guest"
       THEN ~(cfg["can_modify_workflows"] # "true" /\ cfg["ui_menu_save"] # "true")
       ELSE TRUE

\* one dialog instance under the patch
PatchDialog_Unmarked(dlg) ==
  IF ~LooksLikeSavePrompt(dlg.text) THEN dlg
  ELSE LET i == SaveBtn(dlg.buttons)
       IN  [dlg EXCEPT !.patched = TRUE,
                       !.text = "Save Changes?",
                       !.rewrites = @ + 1,
                       !.buttons = IF i = 0 THEN @
                                   ELSE [@ EXCEPT ![i].blockers = @ + 1,
                                                  ![i].dimmed = TRUE]]

PatchDialog(dlg) ==
  IF dlg.patched THEN dlg
  ELSE IF ~LooksLikeSavePrompt(dlg.text) THEN dlg
  ELSE LET i == SaveBtn(dlg.buttons)
       IN  [dlg EXCEPT !.patched = TRUE,
                       !.text = "Save Changes?",
                       !.rewrites = @ + 1,
                       !.buttons = IF i = 0 THEN @
                                   ELSE [@ EXCEPT ![i].blockers = @ + 1,
                                                  ![i].dimmed = TRUE]]

PatchSaveConfirmDialog(e, cfg, role) ==
  IF CanModify(cfg, role) THEN e
  ELSE [e EXCEPT !.dialogs = [i \in 1..Len(@) |-> PatchDialog(@[i])]]

\* the capability checks behind the keyboard guard and the fetch wrapper
IsWorkflowSaveAllowed_FailClosed(cu, gc) ==
  IF ~cu.set THEN FALSE
  ELSE LET role == RoleOf(cu)
           cfg  == RoleCfg(gc, role)
       IN  IF cfg["ui_menu_save"] = "false" THEN FALSE
           ELSE IF role = "guest" /\ cfg["ui_menu_save"] # "true" THEN FALSE
           ELSE TRUE

IsWorkflowSaveAllowed(cu, gc) ==
  IF ~cu.set THEN TRUE
  ELSE LET role == RoleOf(cu)
           cfg  == RoleCfg(gc, role)
       IN  IF cfg["ui_menu_save"] = "false" THEN FALSE
           ELSE IF role = "guest" /\ cfg["ui_menu_save"] # "true" THEN FALSE
           ELSE TRUE

IsWorkflowLoadAllowed(cu, gc) ==
  IF ~cu.set THEN TRUE
  ELSE LET role == RoleOf(cu)
           cfg  == RoleCfg(gc, role)
       IN  IF cfg["ui_menu_load"] = "false" THEN FALSE
           ELSE IF role = "guest" /\ cfg["ui_menu_load"] # "true" THEN FALSE
           ELSE TRUE

(*************************** bounds of the engine ***************************)
MaxRuns == 2
MaxShows == 1
MaxPuts == 1
MaxDialogs == 1

UpdateAfterGroups_NoOverride(e) ==
  LET role == RoleOf(e.cu)
      cfg  == RoleCfg(e.gc, role)
  IN  IF ~e.cu.set THEN e
      ELSE IF e.cu.is_admin THEN [e EXCEPT !.tags = ClearStyle(@),
                                           !.bypassed = TRUE]
      ELSE LET e2 == [e EXCEPT !.tags = SetStyle(@, Css(role, cfg)),
                               !.wrote = IF GetElementById(e.tags, StyleId) = 0
                                         THEN "created" ELSE "reused"]
               e3 == EnforceSidebar(e2, cfg, role)
               e4 == EnforceMenus(e3, cfg, role)
           IN  EnsureLogoutVisible(PatchSaveConfirmDialog(e4, cfg, role))
\* updateEnforcementStyles from its last await on; reading the role of a
\* current user that became null during the await is a TypeError that ends
\* the call
UpdateAfterGroups(e) ==
  LET role == RoleOf(e.cu)
      e1   == IF role = "guest" THEN [e EXCEPT !.cu.is_admin = FALSE] ELSE e
      cfg  == RoleCfg(e1.gc, role)
  IN  IF ~e.cu.set THEN e
      ELSE IF e1.cu.is_admin THEN [e1 EXCEPT !.tags = ClearStyle(@),
                                             !.bypassed = TRUE]
      ELSE LET e2 == [e1 EXCEPT !.tags = SetStyle(@, Css(role, cfg)),
                                !.wrote = IF GetElementById(e1.tags, StyleId) = 0
                                          THEN "created" ELSE "reused"]
               e3 == EnforceSidebar(e2, cfg, role)
               e4 == EnforceMenus(e3, cfg, role)
           IN  EnsureLogoutVisible(PatchSaveConfirmDialog(e4, cfg, role))

\* ... from the return of the current-user fetch on
UpdateAfterMe(e) ==
  IF ~e.cu.set THEN e
  ELSE IF IsEmptyConfig(e.gc) THEN [e EXCEPT !.runs.groups = @ + 1]
  ELSE UpdateAfterGroups(e)

\* a call of updateEnforcementStyles, up to its first await
UpdateEnforcementStyles(e) ==
  IF ~e.cu.set THEN [e EXCEPT !.runs.me = @ + 1]
  ELSE UpdateAfterMe(e)

ApplyEng(e) ==
  /\ currentUser' = e.cu
  /\ groupsConfig' = e.gc
  /\ styleTags' = e.tags
  /\ modal' = e.modal
  /\ menu' = e.menu
  /\ dialogs' = e.dialogs
  /\ runs' = e.runs

\* getData: the parsed body on status 200, null otherwise
GetDataMe(ok) == IF ok THEN serverUser ELSE NoUser
GetDataGroups(ok) == IF ok THEN Fetched(serverPolicy) ELSE EmptyConfig

\* the page outside the authentication pages
AuthIdle ==
  /\ now = StartTime
  /\ page = "home"
  /\ failedAttempts = 0
  /\ timeoutEndTime = Null
  /\ lsFailedAttempts = Null
  /\ lsTimeoutEndTime = Null
  /\ submitBtn = Button(FALSE, Label("Login"))
  /\ guestBtn = Button(FALSE, Label("Guest Login"))
  /\ timers = <<>>
  /\ inflight = NoRequests
  /\ errFields = {}
  /\ toast = NoToast
  /\ op = Op("load", "home", TRUE, 0, NoPair, FALSE)

\* setup() has run and its 500 ms timeout has called updateEnforcementStyles,
\* which is waiting for the current user
AdminStyles == [id |-> "", content |-> <<"ADMIN_STYLES">>]

InitEngine ==
  /\ AuthIdle
  /\ ButtonIdle
  /\ serverUser \in ServerUsers
  /\ serverPolicy \in Policies
  /\ currentUser = NoUser
  /\ groupsConfig = EmptyConfig
  /\ styleTags = <<AdminStyles>>
  /\ modal = ClosedModal
  /\ menu = {}
  /\ dialogs = <<>>
  /\ runs = [me |-> 1, groups |-> 0]
  /\ shows = 0
  /\ puts = 0
  /\ panel = FALSE
  /\ windowFetch = [InstallWorkflowSaveDeniedWatcher(NativeFetch)
                      EXCEPT !.installs = 1]
  /\ eop = NoEvent

\* the current-user fetch of updateEnforcementStyles comes back
MeResolves(ok) ==
  /\ runs.me > 0
  /\ LET e == UpdateAfterMe([CurrentEng EXCEPT !.runs.me = @ - 1,
                                               !.cu = GetDataMe(ok)])
     IN  /\ ApplyEng(e)
         /\ eop' = [Event("me") EXCEPT !.wrote = e.wrote,
                                       !.bypassed = e.bypassed]
  /\ UNCHANGED <<serverUser, serverPolicy, shows, puts, panel, windowFetch,
                 authVars, buttonVars>>

\* the policy fetch of updateEnforcementStyles comes back
GroupsResolves(ok) ==
  /\ runs.groups > 0
  /\ LET e == UpdateAfterGroups([CurrentEng EXCEPT !.runs.groups = @ - 1,
                                                   !.gc = GetDataGroups(ok)])
     IN  /\ ApplyEng(e)
         /\ eop' = [Event("groups") EXCEPT !.wrote = e.wrote,
                                       !.bypassed = e.bypassed]
  /\ UNCHANGED <<serverUser, serverPolicy, shows, puts, panel, windowFetch,
                 authVars, buttonVars>>

\* the steps of the interval callback that may throw
TickSteps == {"sidebar", "menus", "dialog"}

\* the callback of the 1000 ms enforcement interval; nothing in it catches,
\* so a step that throws ends the callback
EnforcementTick(e, throwAt) ==
  IF ~e.cu.set THEN e
  ELSE LET role == RoleOf(e.cu)
           cfg  == RoleCfg(e.gc, role)
           e1 == EnforceSidebar(e, cfg, role)
           e2 == EnforceMenus(e1, cfg, role)
           e3 == EnsureLogoutVisible(PatchSaveConfirmDialog(e2, cfg, role))
       IN  IF throwAt = "sidebar" /\ e.modal.open THEN e
           ELSE IF throwAt = "menus" THEN e1
           ELSE IF throwAt = "dialog" THEN e2
           ELSE IF GetElementById(e3.tags, StyleId) = 0
                THEN UpdateEnforcementStyles(e3)
                ELSE e3

\* the step of this tick that threw, if any
Thrown(e, throwAt) ==
  IF ~e.cu.set THEN "none"
  ELSE IF throwAt = "sidebar" /\ ~e.modal.open THEN "none"
  ELSE throwAt

RunsTotal(r) == r.me + r.groups

EnforcementInterval(throwAt) ==
  /\ RunsTotal(runs) < MaxRuns
  /\ LET e == EnforcementTick(CurrentEng, throwAt)
     IN  /\ ApplyEng(e)
         /\ eop' = [Event("tick") EXCEPT !.thrown = Thrown(CurrentEng, throwAt),
                                         !.wrote = e.wrote,
                                         !.bypassed = e.bypassed]
  /\ UNCHANGED <<serverUser, serverPolicy, shows, puts, panel, windowFetch,
                 authVars, buttonVars>>

\* usgromanaDialog.show: the three fetches are sent
ShowStart ==
  /\ shows < MaxShows
  /\ shows' = shows + 1
  /\ panel' = FALSE
  /\ eop' = Event("show")
  /\ UNCHANGED <<serverUser, serverPolicy, currentUser, groupsConfig,
                 styleTags, modal, menu, dialogs, runs, puts, windowFetch,
                 authVars, buttonVars>>

\* ... and come back: both caches are overwritten, then the admin guard
ShowResolves(meOk, groupsOk) ==
  /\ shows > 0
  /\ shows' = shows - 1
  /\ currentUser' = GetDataMe(meOk)
  /\ groupsConfig' = GetDataGroups(groupsOk)
  /\ panel' = (currentUser'.set /\ currentUser'.is_admin)
  /\ eop' = Event("shown")
  /\ UNCHANGED <<serverUser, serverPolicy, styleTags, modal, menu, dialogs,
                 runs, puts, windowFetch,
                 authVars, buttonVars>>

\* the permission rows and keys an administrator toggles here
EditGroups == {"admin", "guest"}
EditKeys == {"ui_menu_save"}

\* a perm-chk checkbox changes: the cache is written and the PUT is sent
PermChkChange(g, k, v) ==
  /\ panel
  /\ puts < MaxPuts
  /\ puts' = puts + 1
  /\ groupsConfig' = [groupsConfig EXCEPT !.present = @ \cup {g},
                                          !.cfg[g][k] = v]
  /\ serverPolicy' = [serverPolicy EXCEPT ![g][k] = v]
  /\ eop' = Event("perm")
  /\ UNCHANGED <<serverUser, currentUser, styleTags, modal, menu, dialogs,
                 runs, shows, panel, windowFetch,
                 authVars, buttonVars>>

\* the PUT comes back (or fails, which ends the handler)
PutResolves(ok) ==
  /\ puts > 0
  /\ RunsTotal(runs) < MaxRuns
  /\ puts' = puts - 1
  /\ LET e == IF ok THEN UpdateEnforcementStyles(CurrentEng) ELSE CurrentEng
     IN  /\ ApplyEng(e)
         /\ eop' = [Event("put") EXCEPT !.wrote = e.wrote,
                                       !.bypassed = e.bypassed]
  /\ UNCHANGED <<serverUser, serverPolicy, shows, panel, windowFetch,
                 authVars, buttonVars>>

\* another administrator changes the policy on the server
ServerPolicyChange(policy) ==
  /\ policy # serverPolicy
  /\ serverPolicy' = policy
  /\ eop' = Event("policy")
  /\ UNCHANGED <<serverUser, currentUser, groupsConfig, styleTags, modal,
                 menu, dialogs, runs, shows, puts, panel, windowFetch,
                 authVars, buttonVars>>

\* the host opens and closes the settings modal, renders the workflow
\* menu, and shows and closes confirm dialogs
OpenModal ==
  /\ ~modal.open
  /\ modal' = [open |-> TRUE, hidden |-> {}]
  /\ eop' = Event("modal")
  /\ UNCHANGED <<serverUser, serverPolicy, currentUser, groupsConfig,
                 styleTags, menu, dialogs, runs, shows, puts, panel, windowFetch,
                 authVars, buttonVars>>

CloseModal ==
  /\ modal.open
  /\ modal' = ClosedModal
  /\ eop' = Event("modal")
  /\ UNCHANGED <<serverUser, serverPolicy, currentUser, groupsConfig,
                 styleTags, menu, dialogs, runs, shows, puts, panel, windowFetch,
                 authVars, buttonVars>>

OpenMenu ==
  /\ menu # MenuEntries
  /\ menu' = MenuEntries
  /\ eop' = Event("menu")
  /\ UNCHANGED <<serverUser, serverPolicy, currentUser, groupsConfig,
                 styleTags, modal, dialogs, runs, shows, puts, panel, windowFetch,
                 authVars, buttonVars>>

DialogAppears(text, buttons) ==
  /\ Len(dialogs) < MaxDialogs
  /\ dialogs' = Append(dialogs, Dialog(text, buttons))
  /\ eop' = Event("dialog")
  /\ UNCHANGED <<serverUser, serverPolicy, currentUser, groupsConfig,
                 styleTags, modal, menu, runs, shows, puts, panel, windowFetch,
                 authVars, buttonVars>>

DialogCloses ==
  /\ dialogs # <<>>
  /\ dialogs' = Tail(dialogs)
  /\ eop' = Event("dialog")
  /\ UNCHANGED <<serverUser, serverPolicy, currentUser, groupsConfig,
                 styleTags, modal, menu, runs, shows, puts, panel, windowFetch,
                 authVars, buttonVars>>

\* the capture keydown listener of the window
GuardKeys == {"s", "o"}

KeyDown(key, ctrl, shift) ==
  LET blocked ==
        \/ ctrl /\ ~shift /\ key = "s"
             /\ ~IsWorkflowSaveAllowed(currentUser, groupsConfig)
        \/ ctrl /\ ~shift /\ key = "o"
             /\ ~IsWorkflowLoadAllowed(currentUser, groupsConfig)
  IN  /\ eop' = [Event("keydown") EXCEPT !.key = key, !.ctrl = ctrl,
                                         !.shift = shift,
                                         !.prevented = blocked,
                                         !.stopped = blocked]
      /\ UNCHANGED <<serverUser, serverPolicy, currentUser, groupsConfig,
                     styleTags, modal, menu, dialogs, runs, shows, puts,
                     panel, windowFetch,
                 authVars, buttonVars>>

\* wrappedFetch: a response passes through the watcher
FetchStatuses == {200, 403}

WrappedFetch_AlwaysShown(status, workflowUrl) ==
  LET denied == status = 403 /\ workflowUrl
      allowed == IsWorkflowSaveAllowed(currentUser, groupsConfig)
  IN  /\ eop' = [Event("fetch") EXCEPT !.status = status,
                                       !.workflowUrl = workflowUrl,
                                       !.shown = denied,
                                       !.logged = denied /\ allowed]
      /\ UNCHANGED <<serverUser, serverPolicy, currentUser, groupsConfig,
                     styleTags, modal, menu, dialogs, runs, shows, puts,
                     panel, windowFetch,
                 authVars, buttonVars>>

WrappedFetch(status, workflowUrl) ==
  LET denied == status = 403 /\ workflowUrl
      allowed == IsWorkflowSaveAllowed(currentUser, groupsConfig)
  IN  /\ eop' = [Event("fetch") EXCEPT !.status = status,
                                       !.workflowUrl = workflowUrl,
                                       !.shown = denied /\ ~allowed,
                                       !.logged = denied /\ allowed]
      /\ UNCHANGED <<serverUser, serverPolicy, currentUser, groupsConfig,
                     styleTags, modal, menu, dialogs, runs, shows, puts,
                     panel, windowFetch,
                 authVars, buttonVars>>

\* the stylesheet run and the interval, shared by every specification
EngineCore ==
  \/ \E ok \in BOOLEAN : MeResolves(ok)
  \/ \E ok \in BOOLEAN : GroupsResolves(ok)
  \/ \E throwAt \in TickSteps \cup {"none"} : EnforcementInterval(throwAt)

\* the caches and the document under fetches, ticks, the settings dialog,
\* and policy changes made elsewhere
NextEngine ==
  \/ EngineCore
  \/ ShowStart
  \/ \E meOk \in BOOLEAN, groupsOk \in BOOLEAN : ShowResolves(meOk, groupsOk)
  \/ \E policy \in Policies : ServerPolicyChange(policy)
  \/ OpenModal
  \/ CloseModal
  \/ OpenMenu

SpecEngine == InitEngine /\ [][NextEngine]_vars

\* the keyboard guard and the fetch wrapper over the same caches
NextGuards ==
  \/ EngineCore
  \/ ShowStart
  \/ \E meOk \in BOOLEAN, groupsOk \in BOOLEAN : ShowResolves(meOk, groupsOk)
  \/ \E policy \in Policies : ServerPolicyChange(policy)
  \/ \E key \in GuardKeys, ctrl \in BOOLEAN, shift \in BOOLEAN :
       KeyDown(key, ctrl, shift)
  \/ \E status \in FetchStatuses, workflowUrl \in BOOLEAN :
       WrappedFetch(status, workflowUrl)

SpecGuards == InitEngine /\ [][NextGuards]_vars

\* confirm dialogs coming and going under the engine
NextDialogs ==
  \/ EngineCore
  \/ OpenModal
  \/ OpenMenu
  \/ \E text \in DialogTexts, buttons \in Layouts : DialogAppears(text, buttons)
  \/ DialogCloses

SpecDialogs == InitEngine /\ [][NextDialogs]_vars

\* a session the backend flags as administrator, editing permissions
InitAdmin == InitEngine /\ serverUser.is_admin

NextAdmin ==
  \/ EngineCore
  \/ ShowStart
  \/ \E meOk \in BOOLEAN, groupsOk \in BOOLEAN : ShowResolves(meOk, groupsOk)
  \/ \E g \in EditGroups, k \in EditKeys, v \in {"true", "false"} :
       PermChkChange(g, k, v)
  \/ \E ok \in BOOLEAN : PutResolves(ok)
  \/ OpenMenu

SpecAdmin == InitAdmin /\ [][NextAdmin]_vars

(************************** engine properties *******************************)
\* the style element holding the suppression rule-set, or 0
RuleSet(tags) == GetElementById(tags, StyleId)

HasRule(content, key) == \E i \in 1..Len(content) : content[i] = key

\* the default-policy rule as the specification words it
ClaimedSuppressed(role, val) ==
  IF role = "guest" THEN val # "true" ELSE val = "false"

NonAdminRoles == {"guest", "power", "user"}

\* the scanners of a completed tick follow the default-policy rule
ScannersFollowRule ==
  (eop'.name = "tick" /\ eop'.thrown = "none" /\ currentUser.set
     /\ RoleOf(currentUser) \in NonAdminRoles)
  => LET role == RoleOf(currentUser)
         cfg  == RoleCfg(groupsConfig, role)
     IN  /\ modal.open =>
              \A t \in ModalEntries :
                t \in modal'.hidden
                  <=> ClaimedSuppressed(role, Lookup(cfg, GetSanitizedId(t)))
         /\ \A m \in menu :
              m \in menu' <=> ~ClaimedSuppressed(role, cfg[MenuKey(m)])

\* C11 (amended): whenever the rule-set is written for a guest, power or user
\* session, a table key has a rule exactly when the default-policy rule
\* suppresses it (guest: unless exactly true; power and user: only when
\* exactly false), except that the guest rule-set never carries a rule for
\* settings_usgromanasettings; the sidebar and menu scanners of a tick follow
\* the default-policy rule for every key they read.
C11_DefaultPolicyRule ==
  [][ /\ styleTags' # styleTags =>
           LET role == RoleOf(currentUser')
               cfg  == RoleCfg(groupsConfig', role)
               i    == RuleSet(styleTags')
           IN  /\ role \in NonAdminRoles
               /\ i # 0
               /\ \A key \in TableKeySet :
                    HasRule(styleTags'[i].content, key)
                      <=> /\ ClaimedSuppressed(role, cfg[key])
                          /\ ~(role = "guest"
                                 /\ key = "settings_usgromanasettings")
      /\ ScannersFollowRule ]_vars

\* C11 as stated: every table key, the Usgromana settings entry included
C11_Original ==
  [][ styleTags' # styleTags =>
        LET role == RoleOf(currentUser')
            cfg  == RoleCfg(groupsConfig', role)
            i    == RuleSet(styleTags')
        IN  \A key \in TableKeySet :
              HasRule(styleTags'[i].content, key)
                <=> ClaimedSuppressed(role, cfg[key]) ]_vars

\* a guest whose rule-set and sidebar both suppress an absent capability
C11_Witness ==
  /\ eop.name = "tick"
  /\ eop.thrown = "none"
  /\ currentUser.set
  /\ currentUser.role = "guest"
  /\ RoleCfg(groupsConfig, "guest")["settings_comfy"] = "undefined"
  /\ modal.open
  /\ "Comfy" \in modal.hidden
  /\ RuleSet(styleTags) # 0
  /\ HasRule(styleTags[RuleSet(styleTags)].content, "settings_comfy")

\* C12: in a session whose current user is an admin nothing is suppressed,
\* whatever the policy map holds: the rule-set is empty, no settings entry is
\* hidden, no menu entry is removed, no confirm dialog is patched, and
\* Ctrl+S and Ctrl+O are not blocked.
C12_AdminNothingSuppressed ==
  (currentUser.set /\ currentUser.role = "admin" /\ currentUser.is_admin)
  => /\ RuleSet(styleTags) # 0 => styleTags[RuleSet(styleTags)].content = <<>>
     /\ modal.hidden = {}
     /\ menu \in {{}, MenuEntries}
     /\ \A i \in 1..Len(dialogs) : ~dialogs[i].patched
     /\ IsWorkflowSaveAllowed(currentUser, groupsConfig)
     /\ IsWorkflowLoadAllowed(currentUser, groupsConfig)

\* the capability of a guarded shortcut
ShortcutKey(key) == IF key = "s" THEN "ui_menu_save" ELSE "ui_menu_load"

\* the last event was Ctrl+S or Ctrl+O, without Shift
GuardedShortcut ==
  eop.name = "keydown" /\ eop.ctrl /\ ~eop.shift /\ eop.key \in GuardKeys

\* C13 (amended): once the current user is cached, a Ctrl+S keydown has its
\* default action prevented and its propagation stopped exactly when
\* ui_menu_save resolves to blocked for the cached role under the cached
\* policy map (guest: unless exactly true; any other role: only when exactly
\* false); likewise Ctrl+O with ui_menu_load; while no current user is cached
\* neither shortcut is blocked.
C13_ShortcutBlockedOnceUserCached ==
  GuardedShortcut
  => /\ eop.prevented = eop.stopped
     /\ eop.prevented
          <=> /\ currentUser.set
              /\ ClaimedSuppressed(
                   RoleOf(currentUser),
                   RoleCfg(groupsConfig, RoleOf(currentUser))[ShortcutKey(eop.key)])

\* C13 as stated: blocked in every state of a session whose role is blocked,
\* the states before the fetches have resolved included
C13_Original ==
  (/\ GuardedShortcut
   /\ serverUser.role \in NonAdminRoles
   /\ ClaimedSuppressed(serverUser.role,
                        serverPolicy[serverUser.role][ShortcutKey(eop.key)]))
  => eop.prevented /\ eop.stopped

\* a guest with a cached user presses Ctrl+S and the event is blocked
C13_Witness ==
  /\ GuardedShortcut
  /\ eop.key = "s"
  /\ currentUser.set
  /\ currentUser.role = "guest"
  /\ eop.prevented
  /\ eop.stopped

\* the elements carrying the id of the rule-set
RuleSets(tags) == {i \in 1..Len(tags) : tags[i].id = StyleId}

NoDuplicateRule(content) ==
  \A i, j \in 1..Len(content) : content[i] = content[j] => i = j

\* C14: however often updateEnforcementStyles runs, one after the other or
\* interleaved, there is never a second rule-set element and never a
\* duplicated rule; a run that writes the rule-set leaves exactly one element
\* whose content is determined by the current user and policy map alone, so
\* a run with both unchanged leaves the document as the first run left it.
C14_RuleSetUniqueAndIdempotent ==
  /\ [](/\ Cardinality(RuleSets(styleTags)) <= 1
        /\ \A i \in RuleSets(styleTags) : NoDuplicateRule(styleTags[i].content)
        /\ eop.wrote # "none"
             => /\ Cardinality(RuleSets(styleTags)) = 1
                /\ styleTags[RuleSet(styleTags)].content
                     = Css(RoleOf(currentUser),
                           RoleCfg(groupsConfig, RoleOf(currentUser))))
  /\ [][ (/\ eop'.wrote # "none"
          /\ RuleSet(styleTags) # 0
          /\ currentUser' = currentUser
          /\ groupsConfig' = groupsConfig
          /\ styleTags[RuleSet(styleTags)].content
               = Css(RoleOf(currentUser),
                     RoleCfg(groupsConfig, RoleOf(currentUser))))
         => /\ eop'.wrote = "reused"
            /\ styleTags' = styleTags ]_vars

\* a later run found the element of an earlier one and rewrote it
C14_Witness ==
  /\ eop.name = "groups"
  /\ eop.wrote = "reused"
  /\ Cardinality(RuleSets(styleTags)) = 1
  /\ HasRule(styleTags[RuleSet(styleTags)].content, "ui_queue_button")

\* the last event was a tick of a cached non-admin user that ran to its end
CompletedTick ==
  /\ eop.name = "tick"
  /\ eop.thrown = "none"
  /\ currentUser.set
  /\ ~currentUser.is_admin
  /\ RoleOf(currentUser) \in NonAdminRoles

\* C15: once the cached policy map, refreshed from the server, allows a
\* capability for the current non-admin role, one enforcement tick later the
\* rule-set holds no rule for that capability.
C15_TickDropsRuleOfAllowedCapability ==
  (CompletedTick /\ groupsConfig = Fetched(serverPolicy))
  => LET role == RoleOf(currentUser)
         cfg  == RoleCfg(groupsConfig, role)
         i    == RuleSet(styleTags)
     IN  \A key \in TableKeySet :
           ~ClaimedSuppressed(role, cfg[key])
             => (i = 0 \/ ~HasRule(styleTags[i].content, key))

\* C16: when one step of a tick throws, the steps after it still run: the
\* menu is still scanned after a failure of the sidebar scan, and matching
\* confirm dialogs are still patched after a failure of either scan.
C16_StepFailureIsolated ==
  (eop.name = "tick" /\ eop.thrown # "none" /\ currentUser.set)
  => LET role == RoleOf(currentUser)
         cfg  == RoleCfg(groupsConfig, role)
     IN  /\ eop.thrown # "menus"
              => \A m \in menu : ~ScannerBlocks(cfg, MenuKey(m), role)
         /\ (eop.thrown # "dialog" /\ ~CanModify(cfg, role))
              => \A i \in 1..Len(dialogs) :
                   LooksLikeSavePrompt(dialogs[i].text) => dialogs[i].patched

\* C17: in every dialog layout the cancel/reject control never receives a
\* blocker.
C17_RejectNeverBlocked ==
  \A i \in 1..Len(dialogs) :
    \A b \in 1..Len(dialogs[i].buttons) :
      dialogs[i].buttons[b].kind = "reject"
        => dialogs[i].buttons[b].blockers = 0

\* C18: a confirm-dialog instance is patched at most once: its copy is
\* rewritten once, no control of it ever carries more than one pair of
\* blockers, and a patched instance is left as it is by every later event.
C18_DialogPatchedAtMostOnce ==
  /\ [](\A i \in 1..Len(dialogs) :
          /\ dialogs[i].rewrites = (IF dialogs[i].patched THEN 1 ELSE 0)
          /\ \A b \in 1..Len(dialogs[i].buttons) :
               dialogs[i].buttons[b].blockers <= 1)
  /\ [][ \A i \in 1..Len(dialogs) :
           (dialogs[i].patched /\ Len(dialogs') = Len(dialogs))
             => dialogs'[i] = dialogs[i] ]_vars

\* a patched dialog, with one pair of blockers on its accept control, that a
\* tick has just passed over
C18_Witness ==
  /\ eop.name = "tick"
  /\ eop.thrown = "none"
  /\ dialogs # <<>>
  /\ dialogs[1].patched
  /\ dialogs[1].rewrites = 1
  /\ \E b \in 1..Len(dialogs[1].buttons) :
       /\ dialogs[1].buttons[b].kind = "accept"
       /\ dialogs[1].buttons[b].blockers = 1

\* the last event was a 403 on the workflow userdata endpoint
WorkflowDenied ==
  eop.name = "fetch" /\ eop.status = 403 /\ eop.workflowUrl

C20_FilledCacheNeverEmptied ==
  [][ /\ currentUser.set => currentUser'.set
      /\ ~IsEmptyConfig(groupsConfig) => ~IsEmptyConfig(groupsConfig') ]_vars

\* C21: when the first fetch of the current user or of the policy map has
\* failed and nothing is in flight, the next enforcement tick sends the fetch
\* again.
C21_TickRefetchesAfterFailure ==
  [][ (/\ eop'.name = "tick"
       /\ eop'.thrown = "none"
       /\ runs = NoRuns
       /\ shows = 0
       /\ (~currentUser.set \/ IsEmptyConfig(groupsConfig)))
      => RunsTotal(runs') > 0 ]_vars

\* C22: while no policy map has been fetched, nothing is enforced for any
\* role: no rule-set element is injected, no settings entry is hidden, no
\* menu entry is removed and no confirm dialog is patched.
C22_NoPolicyNoEnforcement ==
  IsEmptyConfig(groupsConfig)
  => /\ RuleSet(styleTags) = 0
     /\ modal.hidden = {}
     /\ menu \in {{}, MenuEntries}
     /\ \A i \in 1..Len(dialogs) : ~dialogs[i].patched

\* the account of the session changes on the server (a promotion, or a login
\* under another account in another tab)
ServerUserChange(user) ==
  /\ user # serverUser
  /\ serverUser' = user
  /\ eop' = Event("account")
  /\ UNCHANGED <<serverPolicy, currentUser, groupsConfig, styleTags, modal,
                 menu, dialogs, runs, shows, puts, panel, windowFetch,
                 authVars, buttonVars>>

\* a user session that is promoted to administrator while the page is open
InitPromotion == InitEngine /\ serverUser = User("user", FALSE)

NextPromotion ==
  \/ EngineCore
  \/ ShowStart
  \/ \E meOk \in BOOLEAN, groupsOk \in BOOLEAN : ShowResolves(meOk, groupsOk)
  \/ \E user \in {User("admin", TRUE)} : ServerUserChange(user)
  \/ \E g \in EditGroups, k \in EditKeys, v \in {"true", "false"} :
       PermChkChange(g, k, v)
  \/ \E ok \in BOOLEAN : PutResolves(ok)

SpecPromotion == InitPromotion /\ [][NextPromotion]_vars

\* C30: when updateEnforcementStyles has run for an admin, a rule-set
\* element injected earlier has no content left.
C30_AdminRunClearsRuleSet ==
  eop.bypassed
  => (RuleSet(styleTags) # 0 => styleTags[RuleSet(styleTags)].content = <<>>)

(********************** persisted state of any content **********************)
\* a stored string that parseInt reads as NaN
Malformed == [k |-> "nan", v |-> 0]

\* what localStorage may hold when the login page loads: nothing, text that
\* is no number, a count written earlier, a negative number
AnyStoredCounts == {Null, Malformed, Num(5), Num(0 - 2)}
AnyStoredTimes == {Null, Malformed, Num(StartTime + 1250)}

\* the payloads of Results, and one with a negative failed_attempts
AnyResults == Results \cup {Result(TRUE, 0 - 3, TRUE, 1)}

InitStorage ==
  /\ now = StartTime
  /\ page = "login"
  /\ \E lsfa \in AnyStoredCounts, lste \in AnyStoredTimes :
       LET st == FreshPage("login", lsfa, lste, now)
       IN  /\ failedAttempts = st.fa
           /\ timeoutEndTime = st.te
           /\ lsFailedAttempts = st.lsfa
           /\ lsTimeoutEndTime = st.lste
           /\ submitBtn = st.btn
           /\ timers = st.timers
  /\ guestBtn = Button(FALSE, Label("Guest Login"))
  /\ inflight = NoRequests
  /\ errFields = {}
  /\ toast = NoToast
  /\ op = Op("load", "login", TRUE, 0, NoPair, FALSE)
  /\ EngineIdle
  /\ ButtonIdle

NextStorage ==
  \/ Load("login")
  \/ SubmitLogin
  \/ \E s \in Statuses, r \in AnyResults : RespondLogin(s, r)
  \/ Tick
  \/ \E d \in Delays : Advance(d)

SpecStorage == InitStorage /\ [][NextStorage]_vars

\* C23: in every reachable state failedAttempts is an integer >= 0 and
\* timeoutEndTime is null or a timestamp, whatever localStorage held at page
\* load and whatever payload updateFailedAttempts processed.
C23_AttemptStateWellFormed ==
  /\ failedAttempts \in Nat
  /\ timeoutEndTime = Null \/ (IsNum(timeoutEndTime) /\ timeoutEndTime.v \in Nat)

(************************ the register form's fields ************************)
\* the longest username typed, and the longest ending typed after PasswordStem
MaxNameLen == 3
MaxTailLen == 2

\* every string of at most n characters of an alphabet
Strings(alphabet, n) == UNION { [1..k -> alphabet] : k \in 0..n }

\* characters typed into #new_user_username: a letter, a blank and a
\* symbol; underscore, digit and upper-case letter come with the names added
NameAlphabet == {"a", " ", "!"}
AnyUsernames ==
  Strings(NameAlphabet, MaxNameLen)
    \cup Usernames
    \cup { <<"b", "a", "d", " ", "n", "a", "m", "e", "!">>, <<"Z", "a", "1">>,
           <<" ", "a", "b", "1", " ">>, <<"_", "_", "_">>, <<"a", "_">> }

\* characters typed into #new_user_password after the six letters of
\* PasswordStem: a digit, a symbol and a blank
PasswordStem == <<"p", "a", "s", "s", "w", "d">>
TailAlphabet == {"1", "!", " "}
AnyPasswords ==
  { PasswordStem \o t : t \in Strings(TailAlphabet, MaxTailLen) }
    \cup Passwords
    \cup { <<>>, <<" ">>, <<" ">> \o PasswordStem \o <<"1", "!">>,
           PasswordStem \o <<"0", "_">> }

InitRegister == Init /\ page = "register"

NextRegister ==
  \/ \E u \in AnyUsernames, p \in Passwords : SubmitRegister(u, p)
  \/ \E u \in Usernames, p \in AnyPasswords : SubmitRegister(u, p)
  \/ \E s \in Statuses, r \in Results, a \in BOOLEAN : RespondRegister(s, r, a)
  \/ Fail("register")
  \/ Load("register")

SpecRegister == InitRegister /\ [][NextRegister]_vars

\* the claimed username rule: only letters, digits and underscore, no
\* whitespace, trimmed length at least 3
ClaimedUsername(u) ==
  /\ \A i \in 1..Len(u) : u[i] \in Letters \cup Digits \cup {"_"}
  /\ \A i \in 1..Len(u) : u[i] \notin Whitespace
  /\ TrimLength(u) >= 3

\* the claimed password rule: no whitespace, trimmed length at least 8, a
\* digit and a character of the symbol set
ClaimedPassword(p) ==
  /\ \A i \in 1..Len(p) : p[i] \notin Whitespace
  /\ TrimLength(p) >= 8
  /\ \E i \in 1..Len(p) : p[i] \in Digits
  /\ \E i \in 1..Len(p) : p[i] \in Symbols

\* C24: a submit of the register form leaves #new_user_username unmarked
\* exactly when the username consists only of letters, digits and underscore,
\* holds no whitespace and has trimmed length >= 3; "ab_1" is accepted, "ab",
\* "a b" and "bad name!" are rejected.
C24_UsernameAcceptedIffRule ==
  [][ (op'.name = "submit" /\ op'.kind = "register")
      => \A u \in AnyUsernames, p \in Passwords :
           SubmitRegister(u, p)
           => /\ ("new_user_username" \notin errFields') <=> ClaimedUsername(u)
              /\ ValidateRegisterForm(u, p).field # {"new_user_username"}
                 <=> ClaimedUsername(u) ]_vars

\* a submitted username was accepted and the request went out
C24_Witness ==
  /\ op.name = "submit" /\ op.kind = "register" /\ op.sent
  /\ "new_user_username" \notin errFields

\* C25: with a valid username, a submit of the register form is accepted
\* exactly when the password holds no whitespace, has trimmed length >= 8 and
\* holds a digit and a character of the symbol set; "passw0rd!" is accepted,
\* "password1" is rejected.
C25_PasswordAcceptedIffRule ==
  [][ (op'.name = "submit" /\ op'.kind = "register")
      => \A u \in Usernames, p \in AnyPasswords :
           (SubmitRegister(u, p) /\ ClaimedUsername(u))
           => /\ ("new_user_password" \notin errFields') <=> ClaimedPassword(p)
              /\ ValidateRegisterForm(u, p).ok <=> ClaimedPassword(p) ]_vars

\* a password was rejected for its strength while the username passed
C25_Witness ==
  /\ op.name = "submit" /\ op.kind = "register" /\ ~op.valid
  /\ errFields = {"new_user_password"}
  /\ toast = Toast("error", "password_strength")

(*************************** the button registry ***************************)
\* array.sort((a, b) => a.order - b.order): a stable sort by order
InsertByOrder(sorted, b) ==
  LET k == Cardinality({i \in 1..Len(sorted) : sorted[i].order <= b.order})
  IN  SubSeq(sorted, 1, k) \o <<b>> \o SubSeq(sorted, k + 1, Len(sorted))

RECURSIVE SortByOrder(_)
SortByOrder(s) ==
  IF s = <<>> THEN <<>>
  ELSE InsertByOrder(SortByOrder(SubSeq(s, 1, Len(s) - 1)), s[Len(s)])

\* this._buttons.some(b => b.id === id)
HasId(reg, id) == \E i \in 1..Len(reg) : reg[i].id = id

\* the button register() builds from a config
ButtonOf(config) ==
  RadialButton(config.id, config.label,
               IF config.icon # "" THEN config.icon ELSE FirstUpper(config.label),
               IF config.order # Undefined THEN config.order.v ELSE DefaultOrder)

\* mutant: register() without the test for an id already registered
RegisterCall_NoDuplicateTest(reg, config) ==
  IF ~config.set \/ config.id = <<>> \/ config.label = "" \/ ~config.onClick
  THEN [ret |-> FALSE, buttons |-> reg]
  ELSE IF ~IdFormatOk(config.id)
  THEN [ret |-> FALSE, buttons |-> reg]
  ELSE [ret |-> TRUE, buttons |-> SortByOrder(Append(reg, ButtonOf(config)))]

\* register(config) on the registry reg: what it returns and the registry
\* it leaves
RegisterCall(reg, config) ==
  IF ~config.set \/ config.id = <<>> \/ config.label = "" \/ ~config.onClick
  THEN [ret |-> FALSE, buttons |-> reg]
  ELSE IF ~IdFormatOk(config.id)
  THEN [ret |-> FALSE, buttons |-> reg]
  ELSE IF HasId(reg, config.id)
  THEN [ret |-> FALSE, buttons |-> reg]
  ELSE [ret |-> TRUE, buttons |-> SortByOrder(Append(reg, ButtonOf(config)))]

\* the button list refreshButtons() builds and turns into elements
RefreshButtons(reg) == SortByOrder(<<Settings, Logout>> \o reg)

\* the configs extensions hand to register()
Ids == { GalleryId, <<"x", "-", "1">>, SettingsId, <<"G", "a", "l">>,
         <<"x", " ", "1">>, <<>> }
Orders == {Undefined, Num(0 - 1), Num(5)}
\* no config; every id with every order; a config without label, one without
\* onClick, one with an icon of its own
Configs ==
  {NoConfig}
    \cup { Config(id, "Gallery", TRUE, "", order) : id \in Ids, order \in Orders }
    \cup { Config(GalleryId, "", TRUE, "", Undefined),
           Config(GalleryId, "Gallery", FALSE, "", Undefined),
           Config(GalleryId, "Gallery", TRUE, "pic", Undefined) }

\* what detectExtensionsForRadialMenu() registers
GalleryConfig == Config(GalleryId, "Gallery", TRUE, "pic", Num(10))

\* the rest of the floating button is left alone
FloatingStill ==
  UNCHANGED <<menuOpen, lastClickTime, hasMoved, isDragging, clock, timeouts,
              awaiting, calls, prevClick>>

\* setup()'s timeout: detectExtensionsForRadialMenu(), then new
\* UsgromanaFloatingButton(), whose init() creates the menu and fills it
Setup(gallery) ==
  LET detected == IF gallery /\ ~HasId(registry, GalleryId)
                  THEN RegisterCall(registry, GalleryConfig).buttons
                  ELSE registry
  IN  /\ ~instance
      /\ instance' = TRUE
      /\ registry' = detected
      /\ radialMenu' = [active |-> FALSE, els |-> RefreshButtons(detected)]
      /\ bop' = [BOp("setup") EXCEPT !.refreshed = TRUE]
      /\ FloatingStill
      /\ UNCHANGED <<authVars, engineVars>>

\* UsgromanaRadialMenu.register(config)
Register(config) ==
  LET r == RegisterCall(registry, config)
  IN  /\ registry' = r.buttons
      /\ radialMenu' = IF r.ret /\ instance
                       THEN [radialMenu EXCEPT !.els = RefreshButtons(r.buttons)]
                       ELSE radialMenu
      /\ bop' = [BOp("register") EXCEPT !.config = config, !.ret = r.ret,
                                        !.refreshed = r.ret /\ instance]
      /\ UNCHANGED instance
      /\ FloatingStill
      /\ UNCHANGED <<authVars, engineVars>>

\* UsgromanaRadialMenu.unregister(id)
Unregister(id) ==
  LET found == HasId(registry, id)
      index == CHOOSE i \in 1..Len(registry) : registry[i].id = id
      left == IF found
              THEN SubSeq(registry, 1, index - 1)
                     \o SubSeq(registry, index + 1, Len(registry))
              ELSE registry
  IN  /\ registry' = left
      /\ radialMenu' = IF found /\ instance
                       THEN [radialMenu EXCEPT !.els = RefreshButtons(left)]
                       ELSE radialMenu
      /\ bop' = [BOp("unregister") EXCEPT !.id = id, !.ret = found,
                                          !.refreshed = found /\ instance]
      /\ UNCHANGED instance
      /\ FloatingStill
      /\ UNCHANGED <<authVars, engineVars>>

\* UsgromanaRadialMenu.clear(): the menu is not rebuilt
Clear ==
  /\ registry' = <<>>
  /\ bop' = BOp("clear")
  /\ UNCHANGED <<instance, radialMenu>>
  /\ FloatingStill
  /\ UNCHANGED <<authVars, engineVars>>

\* the ComfyUI page after floating_button.js has been evaluated
InitButtons ==
  /\ AuthIdle
  /\ EngineIdle
  /\ ButtonIdle

NextRegistry ==
  \/ \E gallery \in BOOLEAN : Setup(gallery)
  \/ \E config \in Configs : Register(config)
  \/ \E id \in Ids : Unregister(id)
  \/ Clear

SpecRegistry == InitButtons /\ [][NextRegistry]_vars

UniqueIds(reg) ==
  \A i, j \in 1..Len(reg) : reg[i].id = reg[j].id => i = j

\* what the registry is after leaving out its k-th button
WithoutButton(reg, k) == SubSeq(reg, 1, k - 1) \o SubSeq(reg, k + 1, Len(reg))

\* a config register() is claimed to refuse: a required field is missing,
\* the id is not of the format, or the id is registered
Refused(reg, config) ==
  \/ ~config.set
  \/ config.id = <<>> \/ config.label = "" \/ ~config.onClick
  \/ \E i \in 1..Len(config.id) : config.id[i] \notin IdChars
  \/ \E i \in 1..Len(reg) : reg[i].id = config.id

\* C26: after any sequence of register / unregister / clear calls no two
\* registered buttons share an id; register returns false and leaves the
\* registry unchanged when the id is already registered or a required field
\* or the id format fails, and returns true and adds exactly that button
\* otherwise.
C26_RegistryIdsUnique ==
  /\ [] UniqueIds(registry)
  /\ [][ bop'.name = "register"
         => IF Refused(registry, bop'.config)
            THEN ~bop'.ret /\ registry' = registry
            ELSE /\ bop'.ret
                 /\ \E k \in 1..Len(registry') :
                      /\ registry'[k].id = bop'.config.id
                      /\ registry'[k].label = bop'.config.label
                      /\ WithoutButton(registry', k) = registry ]_vars

\* a registration was refused because the id was taken
C26_Witness ==
  /\ bop.name = "register" /\ ~bop.ret
  /\ bop.config.set /\ bop.config.label # "" /\ bop.config.onClick
  /\ HasId(registry, bop.config.id)
  /\ Len(registry) >= 2

\* C27: the menu refreshButtons builds holds the built-in Settings and Logout
\* buttons exactly once each, whatever was registered, unregistered or
\* cleared, and every extension button comes after both, in non-decreasing
\* order value.
C27_BuiltInsFirstThenByOrder ==
  bop.refreshed
  => LET els == radialMenu.els
     IN  /\ Cardinality({i \in 1..Len(els) : els[i].id = SettingsId}) = 1
         /\ Cardinality({i \in 1..Len(els) : els[i].id = LogoutId}) = 1
         /\ Len(els) >= 2 /\ els[1] = Settings /\ els[2] = Logout
         /\ \A i \in 3..(Len(els) - 1) : els[i].order <= els[i + 1].order

(********************** the floating button's events ***********************)
\* the last time a user event is given, and the onClick calls followed
MaxClock == 1600
MaxCalls == 2

\* the time between one user event and the next
Gaps == {50, 250, 300}

\* an event can arrive at time t when no timeout is due before t
CanArrive(t) ==
  /\ t <= MaxClock
  /\ \A tm \in timeouts : tm.due >= t

\* showRadialMenu(), pending being the timeouts that stay
ShowRadialMenu(pending) ==
  /\ menuOpen' = TRUE
  /\ radialMenu' = [active |-> TRUE, els |-> RefreshButtons(registry)]
  /\ timeouts' = pending

\* hideRadialMenu() at time t: the "active" class goes CLOSE_MS later
HideRadialMenu(pending, t) ==
  /\ menuOpen' = FALSE
  /\ radialMenu' = radialMenu
  /\ timeouts' = pending \cup {Timeout("close", t + CLOSE_MS)}

\* handleDoubleClick(e)
HandleDoubleClick(pending, t) ==
  IF radialMenu.active
  THEN HideRadialMenu(pending, t)
  ELSE ShowRadialMenu(pending)

\* handleClick(e) at time t, this.hasMoved being moved when the event arrives
HandleClick(name, moved, pending, t) ==
  LET timeSinceLastClick == t - lastClickTime
      isDoubleClick == timeSinceLastClick < doubleClickDelay /\ timeSinceLastClick > 0
  IN  /\ hasMoved' = FALSE
      /\ IF moved
         THEN /\ timeouts' = pending
              /\ bop' = BOp(name)
              /\ UNCHANGED <<lastClickTime, menuOpen, radialMenu>>
         ELSE IF isDoubleClick
         THEN /\ lastClickTime' = 0
              /\ HandleDoubleClick(pending, t)
              /\ bop' = [BOp(name) EXCEPT !.double = TRUE]
         ELSE /\ lastClickTime' = t
              /\ timeouts' = pending
              /\ bop' = BOp(name)
              /\ UNCHANGED <<menuOpen, radialMenu>>

\* by the claimed rule a click is the second of a double-click when the click
\* before it came less than doubleClickDelay earlier and was not a second one
IsSecond(t) ==
  prevClick.any /\ ~prevClick.second /\ t - prevClick.at < doubleClickDelay

\* press and release without moving: onPointerDown, onPointerUp, handleClick
Click(d) ==
  LET t == clock + d
  IN  /\ instance /\ ~isDragging
      /\ CanArrive(t)
      /\ clock' = t
      /\ HandleClick("click", FALSE, timeouts, t)
      /\ prevClick' = [any |-> TRUE, at |-> t, second |-> IsSecond(t)]
      /\ UNCHANGED <<registry, instance, isDragging, awaiting, calls>>
      /\ UNCHANGED <<authVars, engineVars>>

\* press and move past the threshold: onPointerDown, onPointerMove
DragStart(d) ==
  LET t == clock + d
  IN  /\ instance /\ ~isDragging
      /\ CanArrive(t)
      /\ clock' = t
      /\ isDragging' = TRUE
      /\ hasMoved' = TRUE
      /\ bop' = BOp("dragstart")
      /\ UNCHANGED <<registry, instance, radialMenu, menuOpen, lastClickTime,
                     timeouts, awaiting, calls, prevClick>>
      /\ UNCHANGED <<authVars, engineVars>>

\* release after a drag: onPointerUp, then the click event the browser fires
DragEnd(d) ==
  LET t == clock + d
      pending == IF hasMoved
                 THEN timeouts \cup {Timeout("moved", t + MovedResetDelay)}
                 ELSE timeouts
  IN  /\ isDragging
      /\ CanArrive(t)
      /\ clock' = t
      /\ isDragging' = FALSE
      /\ HandleClick("dragend", hasMoved, pending, t)
      /\ UNCHANGED <<registry, instance, awaiting, calls, prevClick>>
      /\ UNCHANGED <<authVars, engineVars>>

\* a click outside the menu and the button: outsideClickHandler
ClickOutside(d) ==
  LET t == clock + d
  IN  /\ instance /\ ~isDragging
      /\ radialMenu.active
      /\ CanArrive(t)
      /\ clock' = t
      /\ HideRadialMenu(timeouts, t)
      /\ bop' = BOp("outside")
      /\ UNCHANGED <<registry, instance, lastClickTime, hasMoved, isDragging,
                     awaiting, calls, prevClick>>
      /\ UNCHANGED <<authVars, engineVars>>

\* what the onClick of the i-th menu button can do: the built-in Settings is
\* an async function that resolves, Logout returns, an extension's is free
OutcomesOf(button) ==
  IF button = Settings THEN {"resolves"}
  ELSE IF button = Logout THEN {"returns"}
  ELSE Outcomes

\* the click listener of the i-th menu button, up to its await or its end
MenuButtonClick(i, d, outcome) ==
  LET t == clock + d
  IN  /\ instance /\ menuOpen
      /\ i \in 1..Len(radialMenu.els)
      /\ outcome \in OutcomesOf(radialMenu.els[i])
      /\ calls < MaxCalls
      /\ CanArrive(t)
      /\ clock' = t
      /\ calls' = calls + 1
      /\ IF outcome \in Fates
         THEN /\ awaiting' = [awaiting EXCEPT ![outcome] = @ + 1]
              /\ UNCHANGED timeouts
         ELSE /\ timeouts' = timeouts \cup {Timeout("hide", t + HideDelay)}
              /\ UNCHANGED awaiting
      /\ bop' = [BOp("menuclick") EXCEPT !.outcome = outcome,
                                         !.id = radialMenu.els[i].id]
      /\ UNCHANGED <<registry, instance, radialMenu, menuOpen, lastClickTime,
                     hasMoved, isDragging, prevClick>>
      /\ UNCHANGED <<authVars, engineVars>>

\* the promise an onClick returned resolves or rejects: the listener goes on
\* after its await and sets the timeout that hides the menu
PromiseSettles(fate) ==
  /\ fate \in Settling
  /\ awaiting[fate] > 0
  /\ awaiting' = [awaiting EXCEPT ![fate] = @ - 1]
  /\ timeouts' = timeouts \cup {Timeout("hide", clock + HideDelay)}
  /\ bop' = [BOp("settled") EXCEPT !.outcome = fate]
  /\ UNCHANGED <<registry, instance, radialMenu, menuOpen, lastClickTime,
                 hasMoved, isDragging, clock, calls, prevClick>>
  /\ UNCHANGED <<authVars, engineVars>>

\* the timeout due first runs its callback
TimeoutFires ==
  \E tm \in timeouts :
    LET t == Max(clock, tm.due)
        rest == timeouts \ {tm}
    IN  /\ \A o \in timeouts : tm.due <= o.due
        /\ clock' = t
        /\ CASE tm.kind = "moved" ->
                  /\ hasMoved' = FALSE
                  /\ timeouts' = rest
                  /\ UNCHANGED <<menuOpen, radialMenu>>
             [] tm.kind = "close" ->
                  /\ radialMenu' = [radialMenu EXCEPT !.active = FALSE]
                  /\ timeouts' = rest
                  /\ UNCHANGED <<menuOpen, hasMoved>>
             [] tm.kind = "hide" ->
                  /\ HideRadialMenu(rest, t)
                  /\ UNCHANGED hasMoved
        /\ bop' = [BOp("timeout") EXCEPT !.outcome = tm.kind]
        /\ UNCHANGED <<registry, instance, lastClickTime, isDragging, awaiting,
                       calls, prevClick>>
        /\ UNCHANGED <<authVars, engineVars>>

\* double-click and drag on the floating button
NextToggle ==
  \/ \E gallery \in BOOLEAN : Setup(gallery)
  \/ \E d \in Gaps : Click(d)
  \/ \E d \in Gaps : DragStart(d)
  \/ \E d \in Gaps : DragEnd(d)
  \/ TimeoutFires

SpecToggle == InitButtons /\ [][NextToggle]_vars

\* an extension button whose onClick is free
SyncConfig == Config(<<"x", "-", "1">>, "sync", TRUE, "", Undefined)

\* clicks on the buttons of the open menu
NextMenu ==
  \/ Setup(FALSE)
  \/ Register(SyncConfig)
  \/ \E d \in Gaps : Click(d)
  \/ \E d \in Gaps : ClickOutside(d)
  \/ \E i \in 1..3, d \in Gaps, outcome \in Outcomes : MenuButtonClick(i, d, outcome)
  \/ \E fate \in Settling : PromiseSettles(fate)
  \/ TimeoutFires

SpecMenu == InitButtons /\ [][NextMenu]_vars

\* timeouts that are due run, and a promise that resolves or rejects does so
SpecMenuFair ==
  /\ SpecMenu
  /\ WF_vars(TimeoutFires)
  /\ WF_vars(\E fate \in Settling : PromiseSettles(fate))

\* C28: a click on a menu button calls its onClick exactly once, and the menu
\* is closed eventually, whether the onClick returns, throws, or returns a
\* promise that resolves, rejects or stays pending.
C28_ClickCallsOnceAndCloses ==
  /\ [][ calls' = IF bop'.name = "menuclick" /\ clock' > clock
                   THEN calls + 1 ELSE calls ]_vars
  /\ (bop.name = "menuclick") ~> ~menuOpen

\* the part that holds under SpecMenuFair: with no promise left pending, the
\* menu is closed after a click whose onClick returned, threw, or returned a
\* promise that resolves or rejects
SettledClickCloses ==
  (bop.name = "menuclick" /\ bop.outcome # "pending" /\ awaiting["pending"] = 0)
    ~> ~menuOpen

\* C29: a click toggles the menu exactly when it is the second click of a
\* double-click (less than 300 ms after a click that was not itself a second
\* one); a single click and a third rapid click leave the menu as it is; the
\* click that ends a drag changes neither the menu nor lastClickTime.
C29_ToggledOnlyByDoubleClick ==
  [][ /\ bop'.name = "click" /\ clock' > clock
         => IF IsSecond(clock')
            THEN menuOpen' # menuOpen
            ELSE menuOpen' = menuOpen
      /\ bop'.name = "dragend" /\ clock' > clock
         => menuOpen' = menuOpen /\ lastClickTime' = lastClickTime ]_vars

(********************** the three readings of a capability ******************)
\* the entries enforceMenus takes out of a complete workflow menu
RemovedEntries(cfg, role) ==
  MenuEntries \ EnforceMenus([CurrentEng EXCEPT !.menu = MenuEntries],
                             cfg, role).menu

SaveEntries == {"Save", "Save As"}
LoadEntries == {"Open"}

\* a policy map in which the role's value of one capability is v
OneValue(key, v) ==
  Fetched([g \in GROUPS |-> [AllOf("undefined") EXCEPT ![key] = v]])

\* the interceptors, the menu scanner and the stylesheet builder give the
\* same verdict on saving and on loading for this user and policy map
VerdictsAgree(cu, gc) ==
  LET role == RoleOf(cu)
      cfg  == RoleCfg(gc, role)
  IN  /\ (~IsWorkflowSaveAllowed(cu, gc))
           <=> SaveEntries \subseteq RemovedEntries(cfg, role)
      /\ (~IsWorkflowSaveAllowed(cu, gc))
           <=> RemovedEntries(cfg, role) \cap SaveEntries # {}
      /\ (~IsWorkflowSaveAllowed(cu, gc))
           <=> HasRule(Css(role, cfg), "ui_menu_save")
      /\ (~IsWorkflowLoadAllowed(cu, gc))
           <=> LoadEntries \subseteq RemovedEntries(cfg, role)
      /\ (~IsWorkflowLoadAllowed(cu, gc))
           <=> HasRule(Css(role, cfg), "ui_menu_load")

\* the caches, the rule-set and the workflow menu under runs, ticks, menu
\* openings and policy changes made elsewhere
NextVerdicts ==
  \/ EngineCore
  \/ OpenMenu
  \/ \E policy \in Policies : ServerPolicyChange(policy)

SpecVerdicts == InitEngine /\ [][NextVerdicts]_vars

\* C31: for every non-admin role and every value (true, false, absent) of
\* ui_menu_save, isWorkflowSaveAllowed returns false exactly when enforceMenus
\* removes the Save / Save As entries and exactly when the stylesheet builder
\* emits the ui_menu_save rule; likewise isWorkflowLoadAllowed, the Open
\* entry and ui_menu_load.  It holds for every role and value, for the caches
\* of every reachable state, and a run that wrote the rule-set leaves the
\* rule and the menu as the interceptors' verdict says.
C31_SaveLoadVerdictsAgree ==
  /\ [](/\ \A role \in NonAdminRoles, v \in Vals,
             key \in {"ui_menu_save", "ui_menu_load"} :
             VerdictsAgree(User(role, FALSE), OneValue(key, v))
        /\ (currentUser.set /\ RoleOf(currentUser) \in NonAdminRoles)
             => VerdictsAgree(currentUser, groupsConfig))
  /\ [][ eop'.wrote # "none"
         => /\ HasRule(styleTags'[RuleSet(styleTags')].content, "ui_menu_save")
                 <=> ~IsWorkflowSaveAllowed(currentUser', groupsConfig')
            /\ HasRule(styleTags'[RuleSet(styleTags')].content, "ui_menu_load")
                 <=> ~IsWorkflowLoadAllowed(currentUser', groupsConfig')
            /\ menu' \cap SaveEntries
                 = IF IsWorkflowSaveAllowed(currentUser', groupsConfig')
                   THEN menu \cap SaveEntries ELSE {}
            /\ menu' \cap LoadEntries
                 = IF IsWorkflowLoadAllowed(currentUser', groupsConfig')
                   THEN menu \cap LoadEntries ELSE {} ]_vars

\* a guest allowed to save and nothing else: the run left Save and Save As in
\* the open menu and took Open out, wrote the ui_menu_load rule and not the
\* ui_menu_save rule, and the interceptors allow saving and refuse loading
C31_Witness ==
  /\ eop.wrote # "none"
  /\ currentUser.set
  /\ RoleOf(currentUser) = "guest"
  /\ RoleCfg(groupsConfig, "guest") = SaveOnly
  /\ menu = SaveEntries
  /\ ~HasRule(styleTags[RuleSet(styleTags)].content, "ui_menu_save")
  /\ HasRule(styleTags[RuleSet(styleTags)].content, "ui_menu_load")
  /\ IsWorkflowSaveAllowed(currentUser, groupsConfig)
  /\ ~IsWorkflowLoadAllowed(currentUser, groupsConfig)

(***************************** guests and the bypass ************************)
\* the rule-set of a guest under the cached policy map
GuestCss == Css("guest", RoleCfg(groupsConfig, "guest"))

\* C32: a user whose role is guest is never treated as admin by the
\* enforcement engine.  No run of updateEnforcementStyles for a guest takes
\* the admin bypass; a run that reaches the role test with a cached guest,
\* flagged admin or not, clears the flag, writes the guest rule-set and
\* applies the guest defaults to the menu.
C32_GuestNeverBypasses ==
  /\ [](/\ eop.bypassed => RoleOf(currentUser) # "guest"
        /\ (eop.wrote # "none" /\ RoleOf(currentUser) = "guest")
             => /\ ~currentUser.is_admin
                /\ styleTags[RuleSet(styleTags)].content = GuestCss)
  /\ [][ (/\ eop'.name = "groups"
          /\ currentUser.set
          /\ RoleOf(currentUser) = "guest")
         => /\ ~eop'.bypassed
            /\ eop'.wrote # "none"
            /\ currentUser' = User("guest", FALSE)
            /\ menu' = {m \in menu :
                          RoleCfg(groupsConfig', "guest")[MenuKey(m)] = "true"}
       ]_vars

\* the server flags a guest as admin; the run that followed the policy fetch
\* wrote the guest rules, kept only Save and Save As in the menu, and left
\* the cached flag cleared
C32_Witness ==
  /\ serverUser = User("guest", TRUE)
  /\ eop.name = "groups"
  /\ eop.wrote # "none"
  /\ ~eop.bypassed
  /\ currentUser = User("guest", FALSE)
  /\ RoleCfg(groupsConfig, "guest") = SaveOnly
  /\ styleTags[RuleSet(styleTags)].content = GuestCss
  /\ HasRule(GuestCss, "ui_queue_button")
  /\ ~HasRule(GuestCss, "ui_menu_save")

(**************************** the logout button *****************************)
\* the text of the rule-set element, or the empty text when there is none
RuleSetContent ==
  IF RuleSet(styleTags) = 0 THEN <<>> ELSE styleTags[RuleSet(styleTags)].content

C34_LockedLoginDisabled ==
  (page = "login" /\ IsTimedOut) => submitBtn.disabled

\* the same for the steps of the guest login alone: the completion of a guest
\* login leaves the control disabled when it leaves a lockout behind
C34_GuestCompletionKeepsDisabled ==
  [][ (op'.name = "respond" /\ op'.kind = "guest" /\ page' = "login"
         /\ Truthy(timeoutEndTime') /\ now' < timeoutEndTime'.v)
      => submitBtn'.disabled ]_vars

(********************** the control after a response ************************)
\* the last countdown started on the control is still counting
CountdownRunning(tms) == tms # <<>>

\* C35: every submission whose request resolves with a parsed response (any
\* status code, any payload) leaves the submit control enabled with its
\* original label, at once when no lockout results, or with a countdown
\* running that will enable it; the control is never left disabled with
\* nothing pending that would enable it.
C35_ResponseLeavesControlUsable ==
  [][ (op'.name = "respond" /\ page' # "home")
      => \/ submitBtn' = Button(FALSE, OriginalLabel(page'))
         \/ CountdownRunning(timers') ]_vars

(*********************** requests of the login form *************************)
\* the login page with both of its buttons, following up to two requests
MaxLoginInflight == 2

LoginKinds == {"login", "guest"}

InitLoginForm == Init /\ page = "login"

NextLoginForm ==
  \/ SubmitLoginUnder(MaxLoginInflight)
  \/ SubmitGuestUnder(MaxLoginInflight)
  \/ \E s \in Statuses, r \in Results : RespondLogin(s, r)
  \/ \E s \in Statuses, r \in Results : RespondGuest(s, r)
  \/ \E k \in LoginKinds : Fail(k)
  \/ Tick
  \/ \E d \in Delays : Advance(d)

SpecLoginForm == InitLoginForm /\ [][NextLoginForm]_vars

\* the requests started from the login form that have not come back
LoginPending == inflight["login"] + inflight["guest"]

\* C36: when submissions come only from the form's own controls, at most one
\* request per form is in flight at any time: while a request started from
\* the login form (by Login or by Guest Login) is pending, the Login button
\* and the Guest Login button are both disabled.
C36_OneRequestPerForm ==
  page = "login"
  => /\ LoginPending <= 1
     /\ LoginPending > 0 => (submitBtn.disabled /\ guestBtn.disabled)

\* a Login request and a Guest Login request are pending together
C36_TwoPending ==
  /\ page = "login"
  /\ inflight["login"] = 1
  /\ inflight["guest"] = 1

(***************************** countdown timers *****************************)
\* C37: at most one countdown timer is active per submit control at any
\* time: starting a new lockout countdown never leaves an older countdown
\* running on the same control.
C37_OneCountdownPerControl == Len(timers) <= 1

\* two countdowns on the same control that fire at different times
C37_TwoCountdownsApart ==
  \E i, j \in 1..Len(timers) :
    /\ i < j
    /\ timers[i].action = timers[j].action
    /\ timers[i].due # timers[j].due

(*********************** the menu flag and the active class *****************)
\* C38: after any interleaving of double-clicks, radial button clicks,
\* outside clicks and the delayed close / animation timers, once all pending
\* timers have fired the floating button's menuOpen flag is true exactly when
\* the radial menu element carries the active class.
C38_FlagMatchesActiveClass ==
  timeouts = {} => (menuOpen <=> radialMenu.active)

\* the menu was reopened and a close timer of an earlier hide then took the
\* active class away: the flag says open, the element is not active, and
\* nothing is pending
C38_OpenFlagWithoutActive ==
  /\ timeouts = {}
  /\ awaiting = NoneAwaiting
  /\ menuOpen
  /\ ~radialMenu.active
  /\ bop.name = "timeout"
  /\ bop.outcome = "close"

(****************************** window.fetch ********************************)
MaxInstalls == 3

\* what the original fetch can give: an error, or a response with status 200
\* or 403 whose body is JSON or not
OriginalOutcomes ==
  {FetchRejects} \cup {FetchResolves(status, json) :
                         status \in FetchStatuses, json \in BOOLEAN}

\* what can throw inside the watcher: nothing, isWorkflowSaveAllowed(), or
\* showWorkflowDeniedToast()
WatcherThrows == {"none", "helper", "toast"}

\* the toasts one wrappedFetch shows for a denied workflow request
ToastsShown(throws, allowed) ==
  CASE throws = "helper" -> 1
    [] throws = "toast"  -> 0
    [] OTHER             -> IF allowed THEN 0 ELSE 1

\* one wrappedFetch around a fetch that gave r.out: an error goes through at
\* the await; a response is looked at inside the try, its clone is read for
\* the message, and the response itself is returned
WrappedFetchResult(r, workflowUrl, throws, allowed) ==
  LET response == r.out
      clone    == response
      parsed   == [clone EXCEPT !.bodyUsed = TRUE]
      msg      == IF parsed.json THEN "data.error" ELSE "default"
  IN  IF response.kind = "rejects" THEN r
      ELSE IF response.status = 403 /\ workflowUrl
      THEN [out |-> response,
            toasts |-> r.toasts + ToastsShown(throws, allowed)]
      ELSE [out |-> response, toasts |-> r.toasts]

\* a call through n wrappers, the innermost around the browser's fetch
RECURSIVE Through(_, _, _, _, _)
Through(n, o, workflowUrl, throws, allowed) ==
  IF n = 0 THEN [out |-> o, toasts |-> 0]
  ELSE WrappedFetchResult(Through(n - 1, o, workflowUrl, throws, allowed),
                          workflowUrl, throws, allowed)

\* some code of the page calls window.fetch and the call settles
WindowFetch(o, workflowUrl, throws) ==
  LET allowed == IsWorkflowSaveAllowed(currentUser, groupsConfig)
      r == Through(windowFetch.layers, o, workflowUrl, throws, allowed)
  IN  /\ eop' = [Event("call") EXCEPT !.status = o.status,
                                      !.workflowUrl = workflowUrl,
                                      !.thrown = throws,
                                      !.orig = o,
                                      !.got = r.out,
                                      !.toasts = r.toasts]
      /\ UNCHANGED <<serverUser, serverPolicy, currentUser, groupsConfig,
                     styleTags, modal, menu, dialogs, runs, shows, puts,
                     panel, windowFetch, authVars, buttonVars>>

\* setup() of either module runs again and calls the installer
Install ==
  /\ windowFetch.installs < MaxInstalls
  /\ windowFetch' = [InstallWorkflowSaveDeniedWatcher(windowFetch)
                       EXCEPT !.installs = @ + 1]
  /\ eop' = Event("install")
  /\ UNCHANGED <<serverUser, serverPolicy, currentUser, groupsConfig,
                 styleTags, modal, menu, dialogs, runs, shows, puts, panel,
                 authVars, buttonVars>>

NextFetch ==
  \/ EngineCore
  \/ Install
  \/ \E o \in OriginalOutcomes, workflowUrl \in BOOLEAN,
        throws \in WatcherThrows : WindowFetch(o, workflowUrl, throws)

SpecFetch == InitEngine /\ [][NextFetch]_vars

\* C39: the fetch wrapper is transparent: every call resolves to the very
\* response the original fetch returned, its body unread, or rejects with the
\* same error, whatever the status, the URL or the body and even if the
\* watcher's own logic throws; and however often the installer is called,
\* fetch is wrapped once, so a denied request shows at most one toast.
C39_WrapperTransparentAndSingle ==
  /\ windowFetch.layers = 1
  /\ windowFetch.wrapped
  /\ eop.name = "call" => /\ eop.got = eop.orig
                          /\ eop.toasts <= 1

\* the installer has run three times; a 403 on the workflow endpoint whose
\* body is no JSON came back through the wrapper while the helper threw: one
\* toast, and the caller got the response as the original fetch gave it
C39_Witness ==
  /\ windowFetch.installs = 3
  /\ eop.name = "call"
  /\ eop.orig = FetchResolves(403, FALSE)
  /\ eop.workflowUrl
  /\ eop.thrown = "helper"
  /\ eop.toasts = 1
  /\ eop.got = eop.orig

\* an error of the original fetch reaches the caller as it is
C39_RejectionPassesThrough ==
  /\ eop.name = "call"
  /\ eop.orig = FetchRejects
  /\ eop.got = FetchRejects
  /\ eop.toasts = 0

====
